---------------------------- MODULE Spec2Model ----------------------------
(***************************************************************************)
(* A model of the Atlas ingestion pipeline, atlas/ingestion/ingestion.py.  *)
(*                                                                         *)
(* run_ingestion is one synchronous function; the model follows it step by *)
(* step (STEP 1 .. STEP 10 of the source), one action per step, with the   *)
(* program counter pc naming the step about to run.  A run ends in one of  *)
(* three ways: it returns an IngestionResult (pc = "done"), it raises the  *)
(* structured IngestionError (pc = "halted"), or a Python exception that   *)
(* is not an IngestionError leaves the function (pc = "crashed").          *)
(*                                                                         *)
(* Data representation                                                     *)
(*   - text is a TLA+ string; the string functions of the source (strip,   *)
(*     lower, upper, strptime, float) are computed character by character; *)
(*   - a cell is a tuple: <<>> is the missing value (NaN / None), <<s>> is *)
(*     the text s, <<"date", n>> is a datetime.date with ordinal n;        *)
(*   - a DataFrame is a record [cols, idx, rows]: the column labels, the   *)
(*     row labels (the index, 0-based as pandas numbers them) and the rows,*)
(*     each a sequence of cells aligned with cols.                         *)
(*                                                                         *)
(* The pandas calls are modelled with the semantics of the pandas release  *)
(* the source needs (select_dtypes(include=["object", "str"]) is accepted  *)
(* from pandas 3 on): read_csv(dtype=str) yields text cells and NaN for    *)
(* blanks, Series.astype(str) on such a column keeps NaN, the .str         *)
(* accessors map NaN to NaN, isin() is False on NaN, nunique() skips NaN   *)
(* and merge() matches a NaN key with a NaN key.                           *)
(***************************************************************************)
EXTENDS Integers, Sequences, FiniteSets, TLC

(***************************************************************************)
(* Text                                                                    *)
(***************************************************************************)
Char(s, i) == SubSeq(s, i, i)

\* What str.strip() removes (of the whitespace the inputs below contain).
Whitespace == {" ", "\t"}

RECURSIVE LStrip(_)
LStrip(s) == IF Len(s) > 0 /\ Char(s, 1) \in Whitespace THEN LStrip(Tail(s)) ELSE s

RECURSIVE RStrip(_)
RStrip(s) ==
    IF Len(s) > 0 /\ Char(s, Len(s)) \in Whitespace
    THEN RStrip(SubSeq(s, 1, Len(s) - 1))
    ELSE s

\* str.strip()
Strip(s) == LStrip(RStrip(s))

UpperChars == "ABCDEFGHIJKLMNOPQRSTUVWXYZ"
LowerChars == "abcdefghijklmnopqrstuvwxyz"
Digits == "0123456789"

\* The position of the one-character text c in the text alphabet, 0 if none.
IndexIn(alphabet, c) ==
    IF \E i \in 1..Len(alphabet) : Char(alphabet, i) = c
    THEN CHOOSE i \in 1..Len(alphabet) : Char(alphabet, i) = c
    ELSE 0

LowerChar(c) ==
    IF IndexIn(UpperChars, c) > 0 THEN Char(LowerChars, IndexIn(UpperChars, c)) ELSE c

UpperChar(c) ==
    IF IndexIn(LowerChars, c) > 0 THEN Char(UpperChars, IndexIn(LowerChars, c)) ELSE c

RECURSIVE Lower(_)
\* str.lower()
Lower(s) == IF Len(s) = 0 THEN s ELSE LowerChar(Char(s, 1)) \o Lower(Tail(s))

RECURSIVE Upper(_)
\* str.upper()
Upper(s) == IF Len(s) = 0 THEN s ELSE UpperChar(Char(s, 1)) \o Upper(Tail(s))

IsDigit(c) == IndexIn(Digits, c) > 0

AllDigits(s) == Len(s) > 0 /\ \A i \in 1..Len(s) : IsDigit(Char(s, i))

RECURSIVE DecimalValue(_)
\* The number a text of digits denotes.
DecimalValue(s) ==
    IF Len(s) = 0 THEN 0
    ELSE 10 * DecimalValue(SubSeq(s, 1, Len(s) - 1)) + (IndexIn(Digits, Char(s, Len(s))) - 1)

\* The position of the first occurrence of the character c in s, 0 if none.
Find(s, c) ==
    IF \E i \in 1..Len(s) : Char(s, i) = c
    THEN CHOOSE i \in 1..Len(s) : Char(s, i) = c /\ \A j \in 1..(i - 1) : Char(s, j) # c
    ELSE 0

RECURSIVE Split(_, _)
\* str.split(c): the pieces of s between the occurrences of the character c.
Split(s, c) ==
    IF Find(s, c) = 0 THEN <<s>>
    ELSE <<SubSeq(s, 1, Find(s, c) - 1)>> \o Split(SubSeq(s, Find(s, c) + 1, Len(s)), c)

RECURSIVE Join(_, _)
\* sep.join(parts)
Join(parts, sep) ==
    IF Len(parts) = 0 THEN ""
    ELSE IF Len(parts) = 1 THEN parts[1]
    ELSE parts[1] \o sep \o Join(Tail(parts), sep)


(***************************************************************************)
(* Dates: datetime.strptime over the seven formats of _parse_date, and the *)
(* proleptic Gregorian ordinal of datetime.date                            *)
(***************************************************************************)
\* %m : 1[0-2]|0[1-9]|[1-9]
MonthField(f) ==
    /\ AllDigits(f)
    /\ \/ Len(f) = 1 /\ DecimalValue(f) >= 1
       \/ Len(f) = 2 /\ DecimalValue(f) \in 1..12

\* %d : 3[0-1]|[1-2]\d|0[1-9]|[1-9]| [1-9]
DayField(f) ==
    \/ /\ AllDigits(f)
       /\ \/ Len(f) = 1 /\ DecimalValue(f) >= 1
          \/ Len(f) = 2 /\ DecimalValue(f) \in 1..31
    \/ Len(f) = 2 /\ Char(f, 1) = " " /\ IsDigit(Char(f, 2)) /\ Char(f, 2) # "0"

\* %Y : \d\d\d\d
Year4Field(f) == AllDigits(f) /\ Len(f) = 4

\* %y : \d\d
Year2Field(f) == AllDigits(f) /\ Len(f) = 2

\* %H : 2[0-3]|[0-1]\d|\d
HourField(f) == AllDigits(f) /\ Len(f) \in 1..2 /\ DecimalValue(f) \in 0..23

\* %M : [0-5]\d|\d   (and %S within 0..59; the inputs carry no leap second)
MinuteField(f) == AllDigits(f) /\ Len(f) \in 1..2 /\ DecimalValue(f) \in 0..59

IsLeap(y) == (y % 4 = 0 /\ y % 100 # 0) \/ y % 400 = 0

DaysInMonth(y, m) ==
    IF m = 2 THEN (IF IsLeap(y) THEN 29 ELSE 28)
    ELSE IF m \in {4, 6, 9, 11} THEN 30 ELSE 31

RECURSIVE DaysBeforeMonth(_, _)
DaysBeforeMonth(y, m) ==
    IF m = 1 THEN 0 ELSE DaysBeforeMonth(y, m - 1) + DaysInMonth(y, m - 1)

DaysBeforeYear(y) ==
    365 * (y - 1) + ((y - 1) \div 4) - ((y - 1) \div 100) + ((y - 1) \div 400)

\* date(y, m, d).toordinal()
Ordinal(y, m, d) == DaysBeforeYear(y) + DaysBeforeMonth(y, m) + d

\* date.weekday(): Monday is 0, Sunday is 6
Weekday(n) == (n + 6) % 7

\* The value of a %d field (a leading blank is allowed by its pattern).
DayValue(f) == IF Char(f, 1) = " " THEN DecimalValue(Tail(f)) ELSE DecimalValue(f)

\* The century rule of %y: 69..99 are 19xx, 00..68 are 20xx.
Year2Value(f) == IF DecimalValue(f) <= 68 THEN 2000 + DecimalValue(f) ELSE 1900 + DecimalValue(f)

\* datetime(y, m, d) raises ValueError for a year 0 or a day the month lacks.
MakeDate(y, m, d) ==
    IF y >= 1 /\ d <= DaysInMonth(y, m) THEN <<"date", Ordinal(y, m, d)>> ELSE <<>>

\* The date part of a format: three fields separated by sep, in the order
\* "mdY", "Ymd" or "mdy".  <<>> stands for the ValueError of strptime.
DatePart(s, sep, order) ==
    LET f == Split(s, sep) IN
    IF Len(f) # 3 THEN <<>>
    ELSE CASE order = "mdY" ->
                IF MonthField(f[1]) /\ DayField(f[2]) /\ Year4Field(f[3])
                THEN MakeDate(DecimalValue(f[3]), DecimalValue(f[1]), DayValue(f[2]))
                ELSE <<>>
           [] order = "Ymd" ->
                IF Year4Field(f[1]) /\ MonthField(f[2]) /\ DayField(f[3])
                THEN MakeDate(DecimalValue(f[1]), DecimalValue(f[2]), DayValue(f[3]))
                ELSE <<>>
           [] order = "mdy" ->
                IF MonthField(f[1]) /\ DayField(f[2]) /\ Year2Field(f[3])
                THEN MakeDate(Year2Value(f[3]), DecimalValue(f[1]), DayValue(f[2]))
                ELSE <<>>

\* The time part of a format: "HMS" is %H:%M:%S, "HM" is %H:%M.
TimePart(s, time) ==
    LET f == Split(s, ":") IN
    IF time = "HMS"
    THEN Len(f) = 3 /\ HourField(f[1]) /\ MinuteField(f[2]) /\ MinuteField(f[3])
    ELSE Len(f) = 2 /\ HourField(f[1]) /\ MinuteField(f[2])

\* datetime.strptime(s, fmt).date(), <<>> when it raises ValueError.  A blank
\* in a format matches one or more blanks of the text.
Strptime(s, fmt) ==
    IF fmt.time = "none" THEN DatePart(s, fmt.sep, fmt.order)
    ELSE IF Find(s, " ") <= 1 THEN <<>>
    ELSE IF TimePart(LStrip(SubSeq(s, Find(s, " "), Len(s))), fmt.time)
         THEN DatePart(SubSeq(s, 1, Find(s, " ") - 1), fmt.sep, fmt.order)
         ELSE <<>>

\* The formats _parse_date tries, in its order.
DateFormats ==
    << [sep |-> "/", order |-> "mdY", time |-> "none"],   \* %m/%d/%Y
       [sep |-> "-", order |-> "Ymd", time |-> "none"],   \* %Y-%m-%d
       [sep |-> "-", order |-> "mdY", time |-> "none"],   \* %m-%d-%Y
       [sep |-> "/", order |-> "Ymd", time |-> "none"],   \* %Y/%m/%d
       [sep |-> "/", order |-> "mdy", time |-> "none"],   \* %m/%d/%y
       [sep |-> "-", order |-> "Ymd", time |-> "HMS"],    \* %Y-%m-%d %H:%M:%S
       [sep |-> "/", order |-> "mdY", time |-> "HM"] >>   \* %m/%d/%Y %H:%M

NaN == <<>>

IsNa(cell) == cell = NaN

Text(cell) == cell[1]

\* _parse_date: None for a missing value, else the first format that parses
\* the stripped text, else None.
_parse_date(val) ==
    IF IsNa(val) THEN NaN
    ELSE LET s == Strip(Text(val))
             ok == {i \in 1..Len(DateFormats) : Strptime(s, DateFormats[i]) # <<>>}
         IN  IF ok = {} THEN NaN
             ELSE Strptime(s, DateFormats[CHOOSE i \in ok : \A j \in ok : i <= j])

(***************************************************************************)
(* int(float(text)) of compute_minutes                                     *)
(***************************************************************************)
\* float() of the digits-and-point texts the inputs contain (no exponent,
\* no underscore): digits, digits.digits, digits. and .digits
IsDecimal(t) ==
    LET f == Split(t, ".") IN
    \/ Len(f) = 1 /\ AllDigits(f[1])
    \/ /\ Len(f) = 2
       /\ f[1] = "" \/ AllDigits(f[1])
       /\ f[2] = "" \/ AllDigits(f[2])
       /\ f[1] # "" \/ f[2] # ""

\* int(float(str(val).strip())): [kind |-> "int", v |-> n] with the fraction
\* cut off (towards zero), or the exception raised: float() raises ValueError
\* for a text that is no number, int() raises ValueError for nan and
\* OverflowError for an infinity.
IntOfFloat(text) ==
    LET t == Strip(text)
        signed == Len(t) > 0 /\ Char(t, 1) \in {"+", "-"}
        body == Lower(IF signed THEN Tail(t) ELSE t)
        neg == signed /\ Char(t, 1) = "-"
    IN  IF body \in {"inf", "infinity"} THEN [kind |-> "OverflowError", v |-> 0]
        ELSE IF body = "nan" \/ ~IsDecimal(body) THEN [kind |-> "ValueError", v |-> 0]
        ELSE LET whole == DecimalValue(Split(body, ".")[1])
             IN  [kind |-> "int", v |-> IF neg THEN 0 - whole ELSE whole]

(***************************************************************************)
(* Constants (CONTRACT-LOCKED)                                             *)
(***************************************************************************)
MINUTES_PER_DAY == 480

\* 0.95.  A rate is the fraction [num, den]; the source holds it as a float.
\* matched / total < 0.95 in floats is 100 * matched < 95 * total whenever
\* total is below 10^14, far above any row count of the model.
JOIN_SUCCESS_THRESHOLD == [num |-> 95, den |-> 100]

APPROVED_CONSEQUENCE_TYPES == {"ISS", "OSS", "DAEP", "JJAEP", "EXPULSION", "LOCAL_ONLY"}

INCIDENT_REQUIRED == <<"incident_number", "incident_date", "campus">>

CONSEQUENCE_REQUIRED ==
    <<"incident_number", "consequence_type", "consequence_start_date", "consequence_end_date">>

HEADER_VARIANT_MAP ==
    ("incident number" :> "incident_number") @@
    ("incident_number" :> "incident_number") @@
    ("incidentnumber" :> "incident_number") @@
    ("incident #" :> "incident_number") @@
    ("inc number" :> "incident_number") @@
    ("inc_number" :> "incident_number") @@
    ("incident date & time" :> "incident_date") @@
    ("incident date and time" :> "incident_date") @@
    ("incident_date_time" :> "incident_date") @@
    ("incident_date" :> "incident_date") @@
    ("incident date" :> "incident_date") @@
    ("date" :> "incident_date") @@
    ("building" :> "campus") @@
    ("entity code" :> "campus") @@
    ("campus" :> "campus") @@
    ("school" :> "campus") @@
    ("campus_name" :> "campus") @@
    ("consequence type" :> "consequence_type") @@
    ("consequence_type" :> "consequence_type") @@
    ("action type" :> "consequence_type") @@
    ("action_type" :> "consequence_type") @@
    ("response type" :> "consequence_type") @@
    ("response_type" :> "consequence_type") @@
    ("consequence start date" :> "consequence_start_date") @@
    ("consequence_start_date" :> "consequence_start_date") @@
    ("start date" :> "consequence_start_date") @@
    ("start_date" :> "consequence_start_date") @@
    ("begin date" :> "consequence_start_date") @@
    ("consequence end date" :> "consequence_end_date") @@
    ("consequence_end_date" :> "consequence_end_date") @@
    ("end date" :> "consequence_end_date") @@
    ("end_date" :> "consequence_end_date") @@
    ("instructional minutes lost" :> "instructional_minutes") @@
    ("instructional_minutes_lost" :> "instructional_minutes") @@
    ("minutes lost" :> "instructional_minutes") @@
    ("minutes_lost" :> "instructional_minutes") @@
    ("instructional_minutes" :> "instructional_minutes")

None == <<>>

(***************************************************************************)
(* Rates and their rendering                                               *)
(***************************************************************************)
\* matched / total if total > 0 else 0.0
Rate(matched, total) ==
    IF total > 0 THEN [num |-> matched, den |-> total] ELSE [num |-> 0, den |-> 1]

RateLess(a, b) == a.num * b.den < b.num * a.den

RateEq(a, b) == a.num * b.den = b.num * a.den

RECURSIVE Pow10(_)
Pow10(n) == IF n = 0 THEN 1 ELSE 10 * Pow10(n - 1)

RECURSIVE ZeroPad(_, _)
ZeroPad(s, width) == IF Len(s) >= width THEN s ELSE ZeroPad("0" \o s, width)

\* format(rate, ".<places>%"): the rate times 100, rounded half to even at
\* the given number of places.
FormatPercent(r, places) ==
    LET scaled == r.num * 100 * Pow10(places)
        q == scaled \div r.den
        twice == 2 * (scaled % r.den)
        n == IF twice > r.den \/ (twice = r.den /\ q % 2 = 1) THEN q + 1 ELSE q
    IN  IF places = 0 THEN ToString(n) \o "%"
        ELSE ToString(n \div Pow10(places)) \o "."
             \o ZeroPad(ToString(n % Pow10(places)), places) \o "%"

(***************************************************************************)
(* DataFrames                                                              *)
(***************************************************************************)
Range(seq) == {seq[i] : i \in 1..Len(seq)}

\* The subsequence of seq at the positions in S.
SelectPositions(seq, S) ==
    LET F[i \in 0..Len(seq)] ==
            IF i = 0 THEN <<>>
            ELSE IF i \in S THEN Append(F[i - 1], seq[i]) ELSE F[i - 1]
    IN  F[Len(seq)]

\* len(df)
NRows(df) == Len(df.rows)

ColIdx(df, name) == {j \in 1..Len(df.cols) : df.cols[j] = name}

\* name in df.columns
HasCol(df, name) == ColIdx(df, name) # {}

\* df[name] is a DataFrame, not a Series, when the label occurs twice.
DupCol(df, name) == Cardinality(ColIdx(df, name)) > 1

\* df[name].iloc[i] for a label that occurs once
Get(df, i, name) == df.rows[i][CHOOSE j \in ColIdx(df, name) : TRUE]

\* df[name] = vals : the column is overwritten where the label exists and
\* appended as the last column where it does not.
SetCol(df, name, vals) ==
    IF HasCol(df, name)
    THEN [df EXCEPT !.rows = [i \in 1..NRows(df) |->
              [j \in 1..Len(df.cols) |-> IF df.cols[j] = name THEN vals[i] ELSE df.rows[i][j]]]]
    ELSE [df EXCEPT !.cols = Append(df.cols, name),
                    !.rows = [i \in 1..NRows(df) |-> Append(df.rows[i], vals[i])]]

\* A boolean Series over the rows of df: row label -> the value at the
\* row's position in vals.
Mask(df, vals) == [l \in Range(df.idx) |-> vals[CHOOSE i \in 1..NRows(df) : df.idx[i] = l]]

\* mask.sum()
MaskSum(mask) == Cardinality({l \in DOMAIN mask : mask[l]})

\* A faulty variant of the row selection, which C4 must tell from the real
\* one: df[~mask] drops nothing, so the excluded rows stay in the frame.
SelectRowsDropsNothing(df, mask, want) ==
    IF want
    THEN [df EXCEPT !.idx = SelectPositions(df.idx, {i \in 1..NRows(df) : mask[df.idx[i]]}),
                    !.rows = SelectPositions(df.rows, {i \in 1..NRows(df) : mask[df.idx[i]]})]
    ELSE df

\* df[mask] (want = TRUE) and df[~mask] (want = FALSE).  The mask may have
\* been computed on a longer frame: pandas aligns it on the row labels.
SelectRows(df, mask, want) ==
    LET S == {i \in 1..NRows(df) : mask[df.idx[i]] = want}
    IN  [df EXCEPT !.idx = SelectPositions(df.idx, S), !.rows = SelectPositions(df.rows, S)]

\* df.rename(columns=m)
_apply_alias_map(df, alias_map) ==
    [df EXCEPT !.cols = [j \in 1..Len(df.cols) |->
        IF df.cols[j] \in DOMAIN alias_map THEN alias_map[df.cols[j]] ELSE df.cols[j]]]

\* Series.str.strip() and Series.str.upper(): NaN stays NaN.
StrStrip(cell) == IF IsNa(cell) THEN NaN ELSE <<Strip(Text(cell))>>

StrUpper(cell) == IF IsNa(cell) THEN NaN ELSE <<Upper(Text(cell))>>

(***************************************************************************)
(* Internal utilities                                                      *)
(***************************************************************************)
\* Lowercase + strip.  Used for alias lookup only.
_normalize_header(raw) == Lower(Strip(raw))

\* {raw_header: normalized_key} for the headers that match a known variant.
_build_alias_map(columns) ==
    [col \in {c \in Range(columns) : _normalize_header(c) \in DOMAIN HEADER_VARIANT_MAP}
        |-> HEADER_VARIANT_MAP[_normalize_header(col)]]

\* The model writes the byte-order mark U+FEFF as "^" and the zero-width
\* characters U+200B, U+200C, U+200D as "~", "|", "@": a TLA+ string holds
\* printable ASCII only, and no other text of the model uses these four.
BOM == "^"

Invisible == {"~", "|", "@", BOM}

\* .str.replace(r"^<U+FEFF>", "", regex=True)
RemoveLeadingBom(s) == IF Len(s) > 0 /\ Char(s, 1) = BOM THEN Tail(s) ELSE s

RECURSIVE RemoveInvisible(_)
\* .str.replace(r"[<U+200B><U+200C><U+200D><U+FEFF>]", "", regex=True)
RemoveInvisible(s) ==
    IF Len(s) = 0 THEN s
    ELSE IF Char(s, 1) \in Invisible THEN RemoveInvisible(Tail(s))
    ELSE Char(s, 1) \o RemoveInvisible(Tail(s))

NormalizeCell(cell) ==
    IF IsNa(cell) THEN NaN ELSE <<Strip(RemoveInvisible(RemoveLeadingBom(Text(cell))))>>

\* A faulty variant, which C13 must tell from the real one: the cells are
\* cleaned but nothing is logged.
NormalizeUnlogged(df) ==
    [df |-> [df EXCEPT !.rows = [i \in 1..NRows(df) |->
                [j \in 1..Len(df.cols) |-> NormalizeCell(df.rows[i][j])]]],
     log |-> <<>>]

\* A faulty variant, which C21 must tell from the real one: every column is
\* logged, altered or not.
NormalizeLogsEveryColumn(df) ==
    [df |-> [df EXCEPT !.rows = [i \in 1..NRows(df) |->
                [j \in 1..Len(df.cols) |-> NormalizeCell(df.rows[i][j])]]],
     log |-> [j \in 1..Len(df.cols) |->
                "Mechanical normalize applied to column '" \o df.cols[j] \o "'"]]

\* _mechanical_normalize: the normalized frame and, in column order, one log
\* line for every column in which a cell changed.
_mechanical_normalize(df) ==
    LET new == [i \in 1..NRows(df) |-> [j \in 1..Len(df.cols) |-> NormalizeCell(df.rows[i][j])]]
        changed == {j \in 1..Len(df.cols) : \E i \in 1..NRows(df) : new[i][j] # df.rows[i][j]}
        lines == [j \in 1..Len(df.cols) |->
                     "Mechanical normalize applied to column '" \o df.cols[j] \o "'"]
    IN  [df |-> [df EXCEPT !.rows = new], log |-> SelectPositions(lines, changed)]

\* A faulty variant, which C7 must tell from the real one: once a required
\* column is absent the whole required list is reported.
MissingColumnsWholeList(df, required) ==
    IF \E k \in 1..Len(required) : ~HasCol(df, required[k]) THEN required ELSE <<>>

\* The required columns absent from the frame, in the order of the list.
MissingColumns(df, required) ==
    SelectPositions(required, {k \in 1..Len(required) : ~HasCol(df, required[k])})

\* The IngestionError _validate_required_columns raises, None if it returns.
_validate_required_columns(df, required, file_label) ==
    LET missing == MissingColumns(df, required) IN
    IF Len(missing) > 0
    THEN [reason |-> "Required columns missing",
          affected_file |-> file_label,
          missing_or_invalid_fields |-> missing,
          join_success_rate |-> None,
          operator_fix_steps |->
             << "Add or rename missing column(s): " \o Join(missing, ", "),
                "Ensure column headers match Atlas expected names or known variants.",
                "Refer to SKILL.md (section) REQUIRED FIELDS for exact field names." >>]
    ELSE None

\* A faulty variant, which C11 must tell from the real one: the end date
\* itself is not counted.
CountDaysBeforeEnd(start, end) ==
    Cardinality({d \in start..(end - 1) : Weekday(d) < 5})

RECURSIVE _count_instructional_days(_, _)
\* The weekdays (Monday to Friday) among the ordinals start..end; the
\* recursion is the while loop of the source, one day per turn.
_count_instructional_days(start, end) ==
    IF start > end THEN 0
    ELSE (IF Weekday(start) < 5 THEN 1 ELSE 0) + _count_instructional_days(start + 1, end)

\* The suffix merge() gives a column both frames carry (the key excepted).
Suffixed(name, others, key, suffix) ==
    IF name # key /\ name \in Range(others) THEN name \o suffix ELSE name

\* The pairs (i, j) of rows that an inner merge on the key puts together:
\* equal key cells, a missing key matching a missing key.
KeysMatch(left, right, key, i, j) == Get(left, i, key) = Get(right, j, key)

\* left.merge(right, on=key, how="inner", suffixes=("_inc", "_con")): the
\* left columns, then the right columns without the key; the rows in the
\* order of the left frame and, for one left row, of the right frame.
Merge(left, right, key) ==
    LET kr == CHOOSE j \in ColIdx(right, key) : TRUE
        rcols == SelectPositions(right.cols, (1..Len(right.cols)) \ {kr})
        cols == [j \in 1..Len(left.cols) |-> Suffixed(left.cols[j], right.cols, key, "_inc")]
                \o [j \in 1..Len(rcols) |-> Suffixed(rcols[j], left.cols, key, "_con")]
        RowsFor(i) ==
            LET F[j \in 0..NRows(right)] ==
                    IF j = 0 THEN <<>>
                    ELSE IF KeysMatch(left, right, key, i, j)
                         THEN Append(F[j - 1],
                                     left.rows[i] \o SelectPositions(right.rows[j],
                                                        (1..Len(right.cols)) \ {kr}))
                         ELSE F[j - 1]
            IN  F[NRows(right)]
        All[i \in 0..NRows(left)] == IF i = 0 THEN <<>> ELSE All[i - 1] \o RowsFor(i)
        rows == All[NRows(left)]
    IN  [cols |-> cols, idx |-> [i \in 1..Len(rows) |-> i - 1], rows |-> rows]

\* Series.nunique(): the distinct values, the missing value not counted.
NUnique(df, name) == Cardinality({Get(df, i, name) : i \in 1..NRows(df)} \ {NaN})

(***************************************************************************)
(* The state of one call of run_ingestion                                  *)
(***************************************************************************)
VARIABLES
    pc,                         \* the step about to run, or how the call ended
    incident_file,              \* what incident_path names: [path, exists, parseable, df]
    consequence_file,           \* what consequence_path names
    operator_column_overrides,  \* {} / None is the empty function
    timestamp,
    inc_df, con_df,
    incident_row_count, consequence_row_count,
    flags, exclusions, alias_map_log,
    joined, matched_incidents, join_success,
    explicit_minutes_count, date_derived_count,
    result,                     \* the IngestionResult returned, None before
    error,                      \* the IngestionError raised, None if none
    exception,                  \* the name of any other exception raised, None if none
    call,                       \* a direct call of one of the module's functions:
                                \* [fn, its arguments], None in a run of run_ingestion
    ret,                        \* what the direct call returned or raised, None before
    previous,                   \* how an earlier call with the same arguments ended,
                                \* None in a first call
    other                       \* the run of run_ingestion in the other thread, waiting
                                \* between two of its stages; None if there is none

inputs == <<incident_file, consequence_file, operator_column_overrides, timestamp>>

frames == <<inc_df, con_df, incident_row_count, consequence_row_count>>

logs == <<flags, exclusions, alias_map_log>>

join == <<joined, matched_incidents, join_success>>

counters == <<explicit_minutes_count, date_derived_count>>

locals == <<frames, logs, join, counters>>

\* The direct call of a function other than run_ingestion.
direct == <<call, ret, previous, other>>

vars == <<pc, inputs, locals, result, error, exception, direct>>

\* A faulty variant, which C6 must tell from the real one: the halt hands
\* the caller what had been joined so far along with the error.
RaiseWithPartialResult(e) ==
    /\ pc' = "halted"
    /\ error' = e
    /\ result' = [data |-> joined, report |-> None]
    /\ UNCHANGED <<inputs, exception, direct>>

\* raise IngestionError(...): the caller gets the error and no result.  The
\* locals keep what the call had assigned when it raised.
Raise(e) ==
    /\ pc' = "halted"
    /\ error' = e
    /\ UNCHANGED <<inputs, result, exception, direct>>

\* An exception that is no IngestionError leaves run_ingestion.
Crash(name) ==
    /\ pc' = "crashed"
    /\ exception' = name
    /\ UNCHANGED <<inputs, result, error, direct>>

Goto(step) == pc' = step /\ UNCHANGED <<inputs, result, error, exception, direct>>

(***************************************************************************)
(* STEP 1: the files exist and parse                                       *)
(***************************************************************************)
FileNotFound(label, path) ==
    [reason |-> label \o " file not found",
     affected_file |-> path,
     missing_or_invalid_fields |-> <<>>,
     join_success_rate |-> None,
     operator_fix_steps |->
        << "Verify the path is correct: " \o path,
           "Ensure the file has been uploaded before running ingestion." >>]

\* file.parse_error is the text of the exception read_csv raised.
NotParseable(label, file) ==
    [reason |-> label \o " file is not parseable",
     affected_file |-> file.path,
     missing_or_invalid_fields |-> <<>>,
     join_success_rate |-> None,
     operator_fix_steps |->
        << "Verify the file is a valid CSV.", "Parse error: " \o file.parse_error >>]

Step1 ==
    /\ pc = "step1"
    /\ IF ~incident_file.exists
       THEN Raise(FileNotFound("Incident", incident_file.path)) /\ UNCHANGED locals
       ELSE IF ~consequence_file.exists
       THEN Raise(FileNotFound("Consequence", consequence_file.path)) /\ UNCHANGED locals
       ELSE IF ~incident_file.parseable
       THEN Raise(NotParseable("Incident", incident_file)) /\ UNCHANGED locals
       ELSE IF ~consequence_file.parseable
       THEN Raise(NotParseable("Consequence", consequence_file)) /\ UNCHANGED locals
       ELSE /\ inc_df' = incident_file.df
            /\ con_df' = consequence_file.df
            /\ incident_row_count' = NRows(incident_file.df)
            /\ consequence_row_count' = NRows(consequence_file.df)
            /\ Goto("step2")
            /\ UNCHANGED <<logs, join, counters>>

(***************************************************************************)
(* STEP 2: mechanical normalization                                        *)
(***************************************************************************)
Step2 ==
    /\ pc = "step2"
    /\ LET inc == _mechanical_normalize(inc_df)
           con == _mechanical_normalize(con_df)
       IN  /\ inc_df' = inc.df
           /\ con_df' = con.df
           /\ flags' = flags \o inc.log \o con.log
    /\ Goto("step3")
    /\ UNCHANGED <<incident_row_count, consequence_row_count, exclusions, alias_map_log,
                   join, counters>>

(***************************************************************************)
(* STEP 3: alias maps, the operator's or the auto-detected ones            *)
(***************************************************************************)
\* A faulty variant, which C20 must tell from the real one: the operator's
\* map is laid over the auto-detected one instead of replacing it.
ChosenAliasOverAuto(role, auto) ==
    IF DOMAIN operator_column_overrides # {} /\ role \in DOMAIN operator_column_overrides
    THEN [h \in DOMAIN operator_column_overrides[role] \cup DOMAIN auto |->
            IF h \in DOMAIN operator_column_overrides[role]
            THEN operator_column_overrides[role][h] ELSE auto[h]]
    ELSE auto

\* operator_column_overrides.get(role, auto) if operator_column_overrides else auto
ChosenAlias(role, auto) ==
    IF DOMAIN operator_column_overrides # {} /\ role \in DOMAIN operator_column_overrides
    THEN operator_column_overrides[role]
    ELSE auto

Step3 ==
    /\ pc = "step3"
    /\ LET inc_alias == ChosenAlias("incident", _build_alias_map(inc_df.cols))
           con_alias == ChosenAlias("consequence", _build_alias_map(con_df.cols))
       IN  /\ inc_df' = _apply_alias_map(inc_df, inc_alias)
           /\ con_df' = _apply_alias_map(con_df, con_alias)
           /\ alias_map_log' = [incident |-> inc_alias, consequence |-> con_alias]
    /\ Goto("step4")
    /\ UNCHANGED <<incident_row_count, consequence_row_count, flags, exclusions,
                   join, counters>>

(***************************************************************************)
(* STEP 4: required columns, the incident file first                       *)
(***************************************************************************)
Step4 ==
    /\ pc = "step4"
    /\ IF _validate_required_columns(inc_df, INCIDENT_REQUIRED, "Incident") # None
       THEN /\ Raise(_validate_required_columns(inc_df, INCIDENT_REQUIRED, "Incident"))
            /\ UNCHANGED locals
       ELSE IF _validate_required_columns(con_df, CONSEQUENCE_REQUIRED, "Consequence") # None
       THEN /\ Raise(_validate_required_columns(con_df, CONSEQUENCE_REQUIRED, "Consequence"))
            /\ UNCHANGED locals
       ELSE Goto("step5") /\ UNCHANGED locals

(***************************************************************************)
(* STEP 5: consequence_type against the approved enum                      *)
(***************************************************************************)
\* A faulty variant, which C12 must tell from the real one: the record
\* numbers the removed rows from 0 instead of naming their labels.
ExclusionLogRenumbered(reason, df, mask) ==
    [reason |-> reason, count |-> MaskSum(mask),
     row_indices |-> [i \in 1..MaskSum(mask) |-> i - 1]]

\* ExclusionLog(reason, count, row_indices): the labels of the masked rows,
\* in frame order.
ExclusionLog(reason, df, mask) ==
    [reason |-> reason, count |-> MaskSum(mask), row_indices |-> SelectRows(df, mask, TRUE).idx]

\* A faulty variant, which C8 must tell from the real one: the type is
\* trimmed but not upper-cased before it is looked up.
CtypeTrimmedOnly(df, i) == StrStrip(Get(df, i, "consequence_type"))

\* con_df["consequence_type"].str.upper().str.strip() of row i
CtypeNormalized(df, i) == StrStrip(StrUpper(Get(df, i, "consequence_type")))

\* ~isin(APPROVED_CONSEQUENCE_TYPES): a missing value is in no set.
InvalidCtype(cell) == IsNa(cell) \/ Text(cell) \notin APPROVED_CONSEQUENCE_TYPES

\* The flag of step 5.  ", ".join() walks the set in an order the hash seed
\* of the process picks; the model writes the order of the source text.
EnumFlag(count) ==
    ToString(count) \o " consequence rows excluded: consequence_type not in approved enum ("
    \o Join(<<"ISS", "OSS", "DAEP", "JJAEP", "EXPULSION", "LOCAL_ONLY">>, ", ") \o ")"

\* The frame with its _ctype_normalized column added.
WithCtypeNormalized(df) ==
    SetCol(df, "_ctype_normalized", [i \in 1..NRows(df) |-> CtypeNormalized(df, i)])

\* ~con_df["_ctype_normalized"].isin(APPROVED_CONSEQUENCE_TYPES)
InvalidCtypeMask(con) == Mask(con, [i \in 1..NRows(con) |-> InvalidCtype(Get(con, i, "_ctype_normalized"))])

Step5 ==
    /\ pc = "step5"
    /\ IF DupCol(con_df, "consequence_type")
       THEN Crash("AttributeError") /\ UNCHANGED locals   \* a DataFrame has no .str
       ELSE \E con \in {WithCtypeNormalized(con_df)} :
            \E invalid_ctype_mask \in {InvalidCtypeMask(con)} :
              /\ IF MaskSum(invalid_ctype_mask) > 0
                 THEN /\ exclusions' = Append(exclusions,
                             ExclusionLog("Invalid consequence_type (not in approved enum)",
                                          con, invalid_ctype_mask))
                      /\ flags' = Append(flags, EnumFlag(MaskSum(invalid_ctype_mask)))
                      /\ con_df' = SelectRows(con, invalid_ctype_mask, FALSE)
                 ELSE /\ con_df' = con
                      /\ UNCHANGED <<exclusions, flags>>
              /\ Goto("step6")
              /\ UNCHANGED <<inc_df, incident_row_count, consequence_row_count,
                             alias_map_log, join, counters>>

(***************************************************************************)
(* STEP 6: consequence dates parse and start <= end                        *)
(***************************************************************************)
\* A faulty variant, which C9 must tell from the real one: a start equal to
\* the end counts as an inverted range.
DateNotBefore(a, b) == ~IsNa(a) /\ ~IsNa(b) /\ a[2] >= b[2]

\* Both cells are dates and the first is the later one.
DateAfter(a, b) == ~IsNa(a) /\ ~IsNa(b) /\ a[2] > b[2]

\* The frame with its two parsed-date columns added.
WithParsedDates(df) ==
    LET con1 == SetCol(df, "_start_parsed",
                       [i \in 1..NRows(df) |-> _parse_date(Get(df, i, "consequence_start_date"))])
    IN  SetCol(con1, "_end_parsed",
               [i \in 1..NRows(con1) |-> _parse_date(Get(con1, i, "consequence_end_date"))])

\* A faulty variant, which C28 must tell from the real one: only the start
\* date is looked at.
MissingStartMask(con) ==
    Mask(con, [i \in 1..NRows(con) |-> IsNa(Get(con, i, "_start_parsed"))])

\* con_df["_start_parsed"].isna() | con_df["_end_parsed"].isna()
MissingDatesMask(con) ==
    Mask(con, [i \in 1..NRows(con) |->
                 IsNa(Get(con, i, "_start_parsed")) \/ IsNa(Get(con, i, "_end_parsed"))])

\* (~missing_dates_mask) & (con_df["_start_parsed"] > con_df["_end_parsed"])
InvalidRangeMask(con, missing_dates_mask) ==
    Mask(con, [i \in 1..NRows(con) |->
                 /\ ~missing_dates_mask[con.idx[i]]
                 /\ DateAfter(Get(con, i, "_start_parsed"), Get(con, i, "_end_parsed"))])

Step6 ==
    /\ pc = "step6"
    /\ IF DupCol(con_df, "consequence_start_date") \/ DupCol(con_df, "consequence_end_date")
       THEN Crash("ValueError") /\ UNCHANGED locals   \* _parse_date gets a whole column
       ELSE \E con \in {WithParsedDates(con_df)} :
            \E missing_dates_mask \in {MissingDatesMask(con)} :
            \E invalid_range_mask \in {InvalidRangeMask(con, missing_dates_mask)} :
            \E con2 \in {IF MaskSum(missing_dates_mask) > 0
                         THEN SelectRows(con, missing_dates_mask, FALSE) ELSE con} :
              /\ con_df' = IF MaskSum(invalid_range_mask) > 0
                           THEN SelectRows(con2, invalid_range_mask, FALSE) ELSE con2
              /\ exclusions' = exclusions
                    \o (IF MaskSum(missing_dates_mask) > 0
                        THEN <<ExclusionLog("Missing consequence start or end date",
                                            con, missing_dates_mask)>>
                        ELSE <<>>)
                    \o (IF MaskSum(invalid_range_mask) > 0
                        THEN <<ExclusionLog("consequence_start_date > consequence_end_date",
                                            con2, invalid_range_mask)>>
                        ELSE <<>>)
              /\ flags' = flags
                    \o (IF MaskSum(missing_dates_mask) > 0
                        THEN <<ToString(MaskSum(missing_dates_mask))
                                 \o " consequence rows excluded: missing start or end date">>
                        ELSE <<>>)
                    \o (IF MaskSum(invalid_range_mask) > 0
                        THEN <<ToString(MaskSum(invalid_range_mask))
                                 \o " consequence rows excluded: start date is after end date">>
                        ELSE <<>>)
              /\ Goto("step7")
              /\ UNCHANGED <<inc_df, incident_row_count, consequence_row_count,
                             alias_map_log, join, counters>>

(***************************************************************************)
(* STEP 7: the join on incident_number and the join gate                   *)
(***************************************************************************)
\* A faulty variant, which C24 must tell from the real one: the halt of the
\* join gate leaves out the rate it has just computed.
JoinBelowThresholdWithoutRate(rate) ==
    [reason |-> "Join success below required threshold",
     affected_file |-> "Both (Incident + Consequence)",
     missing_or_invalid_fields |-> <<"incident_number match">>,
     join_success_rate |-> None,
     operator_fix_steps |->
        << "Verify both files originate from the same SIS export run." >>]

\* The IngestionError of the join gate (ingestion.py:547-558).
JoinBelowThreshold(rate) ==
    [reason |-> "Join success below required threshold",
     affected_file |-> "Both (Incident + Consequence)",
     missing_or_invalid_fields |-> <<"incident_number match">>,
     join_success_rate |-> rate,
     operator_fix_steps |->
        << "Join success is " \o FormatPercent(rate, 1) \o "; minimum required is "
              \o FormatPercent(JOIN_SUCCESS_THRESHOLD, 0) \o ".",
           "Verify both files originate from the same SIS export run.",
           "Check that incident_number formatting is consistent (no leading zeros dropped, no extra spaces).",
           "Identify incidents in the Incident file that have no matching row in the Consequence file." >>]

\* df["incident_number"] = df["incident_number"].str.strip()
StripKey(df) ==
    SetCol(df, "incident_number",
           [i \in 1..NRows(df) |-> StrStrip(Get(df, i, "incident_number"))])

\* joined["incident_number"].nunique()
MatchedIncidents(j) == NUnique(j, "incident_number")

\* A faulty variant, which C1 must tell from the real one: the gate also
\* halts a rate that equals the threshold.
GateHaltsAtThreshold(rate) == ~RateLess(JOIN_SUCCESS_THRESHOLD, rate)

\* A faulty variant, which C30 must tell from the real one: the gate lets
\* every rate of one half or more through.
GateHaltsBelowHalf(rate) == RateLess(rate, [num |-> 1, den |-> 2])

\* join_success < JOIN_SUCCESS_THRESHOLD
GateHalts(rate) == RateLess(rate, JOIN_SUCCESS_THRESHOLD)

Step7 ==
    /\ pc = "step7"
    /\ IF DupCol(inc_df, "incident_number")
       THEN Crash("AttributeError") /\ UNCHANGED locals   \* a DataFrame has no .str
       ELSE IF DupCol(con_df, "incident_number")
       THEN /\ Crash("AttributeError")
            /\ inc_df' = StripKey(inc_df)
            /\ UNCHANGED <<con_df, incident_row_count, consequence_row_count, logs,
                           join, counters>>
       ELSE \E inc \in {StripKey(inc_df)} :
            \E con \in {StripKey(con_df)} :
            \E j \in {Merge(inc, con, "incident_number")} :
            \E rate \in {Rate(MatchedIncidents(j), NRows(inc))} :
              /\ inc_df' = inc
              /\ con_df' = con
              /\ joined' = j
              /\ matched_incidents' = MatchedIncidents(j)
              /\ join_success' = rate
              /\ IF GateHalts(rate) THEN Raise(JoinBelowThreshold(rate)) ELSE Goto("step8")
              /\ UNCHANGED <<incident_row_count, consequence_row_count, logs, counters>>

(***************************************************************************)
(* STEP 8: instructional minutes, explicit before date-derived             *)
(***************************************************************************)
NoMinutes(rate) ==
    [reason |-> "Cannot compute instructional minutes: no explicit minutes and no valid dates",
     affected_file |-> "Consequence",
     missing_or_invalid_fields |->
        <<"instructional_minutes", "consequence_start_date", "consequence_end_date">>,
     join_success_rate |-> rate,
     operator_fix_steps |->
        << "Provide at least one of: (a) an explicit instructional minutes column, or (b) valid consequence start and end dates.",
           "Without this, Atlas cannot produce a Decision Brief honestly." >>]

\* row.get(name): None when the row has no such label.
RowGet(df, i, name) == IF HasCol(df, name) THEN Get(df, i, name) ELSE None

\* The date-derived branch of compute_minutes for row i.
DateDerived(df, i) ==
    LET start == RowGet(df, i, "_start_parsed")
        end == RowGet(df, i, "_end_parsed")
    IN  IF DupCol(df, "_start_parsed") \/ DupCol(df, "_end_parsed")
        THEN [kind |-> "ValueError", v |-> 0]
        ELSE IF start # None /\ end # None
        THEN [kind |-> "date_derived",
              v |-> _count_instructional_days(start[2], end[2]) * MINUTES_PER_DAY]
        ELSE [kind |-> "IngestionError", v |-> 0]

\* The explicit value of row i as compute_minutes reads it: the result of
\* int(float(str(val).strip())), kind "none" where the value is missing.
ExplicitValue(df, i) ==
    IF IsNa(Get(df, i, "instructional_minutes"))
    THEN [kind |-> "none", v |-> 0]
    ELSE IntOfFloat(Text(Get(df, i, "instructional_minutes")))

\* compute_minutes(row) for row i of the joined frame: what it returns and
\* the counter it bumps ("explicit", "date_derived"), or what it raises.
compute_minutes(df, i) ==
    IF ~HasCol(df, "instructional_minutes") THEN DateDerived(df, i)
    ELSE IF DupCol(df, "instructional_minutes")
    THEN [kind |-> "ValueError", v |-> 0]     \* the truth value of a Series
    ELSE LET e == ExplicitValue(df, i) IN
         IF e.kind = "int" /\ e.v > 0 THEN [kind |-> "explicit", v |-> e.v]
         ELSE IF e.kind = "OverflowError" THEN e   \* not among the caught exceptions
         ELSE DateDerived(df, i)

Raises(r) == r.kind \notin {"explicit", "date_derived"}

Step8 ==
    /\ pc = "step8"
    /\ \E out \in {[i \in 1..NRows(joined) |-> compute_minutes(joined, i)]} :
       \E failed \in {{i \in 1..NRows(joined) : Raises(out[i])}} :
       \E done \in {IF failed = {} THEN 1..NRows(joined)
                    ELSE 1..((CHOOSE i \in failed : \A k \in failed : i <= k) - 1)} :
           \* joined.apply(compute_minutes, axis=1) calls it row by row and
           \* stops at the first row that raises
           /\ explicit_minutes_count' = Cardinality({i \in done : out[i].kind = "explicit"})
           /\ date_derived_count' = Cardinality({i \in done : out[i].kind = "date_derived"})
           /\ IF failed = {}
              THEN /\ joined' = SetCol(joined, "instructional_minutes_computed",
                                       [i \in 1..NRows(joined) |-> <<"int", out[i].v>>])
                   /\ Goto("step9")
              ELSE /\ UNCHANGED joined
                   /\ IF out[Cardinality(done) + 1].kind = "IngestionError"
                      THEN Raise(NoMinutes(join_success))
                      ELSE Crash(out[Cardinality(done) + 1].kind)
    /\ UNCHANGED <<frames, logs, matched_incidents, join_success>>

(***************************************************************************)
(* STEP 9: the exclusion summary flag                                      *)
(***************************************************************************)
RECURSIVE SumCounts(_)
\* sum(ex.count for ex in exclusions)
SumCounts(exs) == IF Len(exs) = 0 THEN 0 ELSE exs[1].count + SumCounts(Tail(exs))

\* A faulty variant, which C25 must tell from the real one: the final
\* exclusion check halts the run when rows were excluded before the join.
Step9RechecksGate ==
    /\ pc = "step9"
    /\ IF SumCounts(exclusions) > 0
       THEN Raise(JoinBelowThreshold(join_success)) /\ UNCHANGED locals
       ELSE Goto("step10") /\ UNCHANGED locals

Step9 ==
    /\ pc = "step9"
    /\ flags' = IF SumCounts(exclusions) > 0
                THEN Append(flags, "Total rows excluded before join: "
                                    \o ToString(SumCounts(exclusions))
                                    \o ". Join success rate reflects post-exclusion match.")
                ELSE flags
    /\ Goto("step10")
    /\ UNCHANGED <<frames, exclusions, alias_map_log, join, counters>>

(***************************************************************************)
(* STEP 10: the Data Readiness Report and the result                       *)
(***************************************************************************)
\* Path(path).name
PathName(path) == Split(path, "/")[Len(Split(path, "/"))]

DataReadinessReport ==
    [timestamp |-> timestamp,
     incident_file |-> PathName(incident_file.path),
     consequence_file |-> PathName(consequence_file.path),
     incident_row_count |-> incident_row_count,
     consequence_row_count |-> consequence_row_count,
     matched_incidents |-> matched_incidents,
     join_success_rate |-> join_success,
     excluded_rows |-> exclusions,
     minutes_explicit_count |-> explicit_minutes_count,
     minutes_date_derived_count |-> date_derived_count,
     minutes_assumptions |->
        [minutes_per_day |-> ToString(MINUTES_PER_DAY),
         weekends |-> "excluded",
         counting_rule |-> "inclusive (start and end dates both count)",
         partial_days |-> "not inferred; single-date removal = 1 full day (480 min)"],
     alias_map |-> alias_map_log,
     flags |-> flags]

\* IngestionResult(data=joined, report=report)
Step10 ==
    /\ pc = "step10"
    /\ result' = [data |-> joined, report |-> DataReadinessReport]
    /\ pc' = "done"
    /\ UNCHANGED <<inputs, locals, error, exception, direct>>

(***************************************************************************)
(* DataReadinessReport.as_text().  The rule character (U+2550), the arrow  *)
(* (U+2192) and the flag mark (U+2691) of the source are written "=", "->" *)
(* and "!" here.                                                           *)
(***************************************************************************)
RECURSIVE Repeat(_, _)
\* s * n
Repeat(s, n) == IF n = 0 THEN "" ELSE s \o Repeat(s, n - 1)

\* The keys of one alias map in the order its dict holds them: the order of
\* the file's columns for an auto-detected map, the order the operator
\* wrote them in for an override.
OverrideKeyOrder == <<"ID", "When", "Where", "Note">>

AliasKeys(file_label, amap) ==
    LET auto == IF file_label = "incident" THEN incident_file.df.cols
                ELSE consequence_file.df.cols
        order == IF DOMAIN operator_column_overrides # {}
                    /\ file_label \in DOMAIN operator_column_overrides
                 THEN OverrideKeyOrder ELSE auto
    IN  SelectPositions(order, {i \in 1..Len(order) : order[i] \in DOMAIN amap})

\* The lines of the COLUMN ALIAS MAP section for one file.
AliasLines(file_label, amap) ==
    <<"  [" \o file_label \o "]">>
    \o [i \in 1..Len(AliasKeys(file_label, amap)) |->
          "    '" \o AliasKeys(file_label, amap)[i] \o "' -> '"
             \o amap[AliasKeys(file_label, amap)[i]] \o "'"]

as_text(self) ==
    Join(
      << Repeat("=", 60),
         "ATLAS DATA READINESS REPORT",
         Repeat("=", 60),
         "Generated       : " \o self.timestamp,
         "",
         "FILES",
         "  Incident File : " \o self.incident_file,
         "  Consequence   : " \o self.consequence_file,
         "",
         "ROW COUNTS",
         "  Incident rows : " \o ToString(self.incident_row_count),
         "  Consequence   : " \o ToString(self.consequence_row_count),
         "",
         "JOIN",
         "  Matched       : " \o ToString(self.matched_incidents),
         "  Join success  : " \o FormatPercent(self.join_success_rate, 2),
         "  Threshold     : " \o FormatPercent(JOIN_SUCCESS_THRESHOLD, 0),
         "  Status        : "
            \o (IF ~RateLess(self.join_success_rate, JOIN_SUCCESS_THRESHOLD)
                THEN "PASS" ELSE "FAIL"),
         "",
         "EXCLUDED ROWS" >>
      \o (IF Len(self.excluded_rows) = 0 THEN <<"  None">> ELSE <<>>)
      \o [e \in 1..Len(self.excluded_rows) |->
            "  " \o self.excluded_rows[e].reason \o ": "
               \o ToString(self.excluded_rows[e].count) \o " rows"]
      \o << "",
            "INSTRUCTIONAL MINUTES METHOD",
            "  Explicit minutes used   : " \o ToString(self.minutes_explicit_count),
            "  Date-derived (480/day)  : " \o ToString(self.minutes_date_derived_count),
            "  Assumptions:",
            "    minutes_per_day: " \o self.minutes_assumptions.minutes_per_day,
            "    weekends: " \o self.minutes_assumptions.weekends,
            "    counting_rule: " \o self.minutes_assumptions.counting_rule,
            "    partial_days: " \o self.minutes_assumptions.partial_days,
            "",
            "COLUMN ALIAS MAP" >>
      \o AliasLines("incident", self.alias_map.incident)
      \o AliasLines("consequence", self.alias_map.consequence)
      \o (IF Len(self.flags) > 0
          THEN <<"", "FLAGS (all surfaced)">>
               \o [f \in 1..Len(self.flags) |-> "  ! " \o self.flags[f]]
          ELSE <<>>)
      \o <<Repeat("=", 60)>>,
      "\n")

(***************************************************************************)
(* column_mapper.py: the alias tables of the six source systems.  A dict   *)
(* is written as the sequence of its <<key, value>> items in the order of  *)
(* the source text, which is the order Python iterates it in.              *)
(***************************************************************************)
NORMALIZED_FIELDS ==
    { "incident_number",
      "incident_date",
      "campus",
      "grade",
      "incident_type",
      "location",
      "time_block",
      "response",
      "consequence_type",
      "consequence_start_date",
      "consequence_end_date",
      "days_removed",
      "instructional_minutes",
      "race",
      "gender",
      "special_population" }

_SKYWARD_VARIANTS ==
    << <<"Incident Number", "incident_number">>,
       <<"Incident_Number", "incident_number">>,
       <<"Incident #", "incident_number">>,
       <<"Incident#", "incident_number">>,
       <<"Incident Nbr", "incident_number">>,
       <<"Incident_Nbr", "incident_number">>,
       <<"Inc Number", "incident_number">>,
       <<"Inc_Number", "incident_number">>,
       <<"Inc #", "incident_number">>,
       <<"Inc#", "incident_number">>,
       <<"Incident Date & Time", "incident_date">>,
       <<"Incident Date and Time", "incident_date">>,
       <<"Incident_Date_Time", "incident_date">>,
       <<"Incident Date", "incident_date">>,
       <<"Incident_Date", "incident_date">>,
       <<"Incident DateTime", "incident_date">>,
       <<"Incident_DateTime", "incident_date">>,
       <<"Building", "campus">>,
       <<"Building Name", "campus">>,
       <<"Building_Name", "campus">>,
       <<"Entity Code", "campus">>,
       <<"Entity_Code", "campus">>,
       <<"Campus", "campus">>,
       <<"Campus_Name", "campus">>,
       <<"Campus Name", "campus">>,
       <<"School", "campus">>,
       <<"Grade Level", "grade">>,
       <<"Grade_Level", "grade">>,
       <<"Grade", "grade">>,
       <<"Student Grade", "grade">>,
       <<"Student_Grade", "grade">>,
       <<"Student Grade Level", "grade">>,
       <<"Student_Grade_Level", "grade">>,
       <<"GradeLevel", "grade">>,
       <<"Grade Lvl", "grade">>,
       <<"Grade_Lvl", "grade">>,
       <<"Incident Type", "incident_type">>,
       <<"Incident_Type", "incident_type">>,
       <<"Behavior Type", "incident_type">>,
       <<"Behavior_Type", "incident_type">>,
       <<"Violation", "incident_type">>,
       <<"Violation Type", "incident_type">>,
       <<"Violation_Type", "incident_type">>,
       <<"Location", "location">>,
       <<"Incident Location", "location">>,
       <<"Incident_Location", "location">>,
       <<"Class Period", "time_block">>,
       <<"Class_Period", "time_block">>,
       <<"Period", "time_block">>,
       <<"Time Block", "time_block">>,
       <<"Time_Block", "time_block">>,
       <<"TimeBlock", "time_block">>,
       <<"Time Period", "time_block">>,
       <<"Time_Period", "time_block">>,
       <<"Action Taken", "response">>,
       <<"Action_Taken", "response">>,
       <<"Consequence Type", "consequence_type">>,
       <<"Consequence_Type", "consequence_type">>,
       <<"Action Type", "consequence_type">>,
       <<"Action_Type", "consequence_type">>,
       <<"Consequence Start Date", "consequence_start_date">>,
       <<"Consequence_Start_Date", "consequence_start_date">>,
       <<"Start Date", "consequence_start_date">>,
       <<"Start_Date", "consequence_start_date">>,
       <<"Begin Date", "consequence_start_date">>,
       <<"Begin_Date", "consequence_start_date">>,
       <<"Consequence End Date", "consequence_end_date">>,
       <<"Consequence_End_Date", "consequence_end_date">>,
       <<"End Date", "consequence_end_date">>,
       <<"End_Date", "consequence_end_date">>,
       <<"Days Removed", "days_removed">>,
       <<"Days_Removed", "days_removed">>,
       <<"Number of Days", "days_removed">>,
       <<"Number_of_Days", "days_removed">>,
       <<"Nbr Days", "days_removed">>,
       <<"Nbr_Days", "days_removed">>,
       <<"Num Days", "days_removed">>,
       <<"Num_Days", "days_removed">>,
       <<"Instructional Minutes Lost", "instructional_minutes">>,
       <<"Instructional_Minutes_Lost", "instructional_minutes">>,
       <<"Minutes Lost", "instructional_minutes">>,
       <<"Minutes_Lost", "instructional_minutes">>,
       <<"Instructional Minutes", "instructional_minutes">>,
       <<"Instructional_Minutes", "instructional_minutes">>,
       <<"Race", "race">>,
       <<"Ethnicity", "race">>,
       <<"Race/Ethnicity", "race">>,
       <<"Gender", "gender">>,
       <<"Sex", "gender">>,
       <<"Special Education", "special_population">>,
       <<"Special_Education", "special_population">>,
       <<"Spec Ed", "special_population">>,
       <<"Spec_Ed", "special_population">>,
       <<"Special Ed", "special_population">>,
       <<"Special_Ed", "special_population">> >>

_POWERSCHOOL_VARIANTS ==
    << <<"Incident Number", "incident_number">>,
       <<"Incident_Number", "incident_number">>,
       <<"Incident_ID", "incident_number">>,
       <<"Incident ID", "incident_number">>,
       <<"Offense_ID", "incident_number">>,
       <<"Offense ID", "incident_number">>,
       <<"Offense_Number", "incident_number">>,
       <<"Offense Number", "incident_number">>,
       <<"Incident_Date", "incident_date">>,
       <<"Incident Date", "incident_date">>,
       <<"Date_Of_Incident", "incident_date">>,
       <<"Date of Incident", "incident_date">>,
       <<"Offense_Date", "incident_date">>,
       <<"Offense Date", "incident_date">>,
       <<"School_Name", "campus">>,
       <<"School Name", "campus">>,
       <<"Campus_Name", "campus">>,
       <<"Campus Name", "campus">>,
       <<"School", "campus">>,
       <<"Campus", "campus">>,
       <<"Grade_Level", "grade">>,
       <<"Grade Level", "grade">>,
       <<"Grade", "grade">>,
       <<"Student_Grade", "grade">>,
       <<"Student Grade", "grade">>,
       <<"Student Grade Level", "grade">>,
       <<"Student_Grade_Level", "grade">>,
       <<"Offense_Type", "incident_type">>,
       <<"Offense Type", "incident_type">>,
       <<"Incident_Type", "incident_type">>,
       <<"Incident Type", "incident_type">>,
       <<"Behavior_Type", "incident_type">>,
       <<"Behavior Type", "incident_type">>,
       <<"Offense_Location", "location">>,
       <<"Offense Location", "location">>,
       <<"Incident_Location", "location">>,
       <<"Incident Location", "location">>,
       <<"Location", "location">>,
       <<"Class_Period", "time_block">>,
       <<"Class Period", "time_block">>,
       <<"Period", "time_block">>,
       <<"TimeBlock", "time_block">>,
       <<"Action_Taken", "response">>,
       <<"Action Taken", "response">>,
       <<"Staff_Response", "response">>,
       <<"Staff Response", "response">>,
       <<"Consequence_Type", "consequence_type">>,
       <<"Consequence Type", "consequence_type">>,
       <<"Action_Type", "consequence_type">>,
       <<"Action Type", "consequence_type">>,
       <<"Response_Type", "consequence_type">>,
       <<"Response Type", "consequence_type">>,
       <<"Consequence_Start_Date", "consequence_start_date">>,
       <<"Consequence Start Date", "consequence_start_date">>,
       <<"Start_Date", "consequence_start_date">>,
       <<"Start Date", "consequence_start_date">>,
       <<"Action_Start_Date", "consequence_start_date">>,
       <<"Action Start Date", "consequence_start_date">>,
       <<"ActionStartDate", "consequence_start_date">>,
       <<"Suspension Start Date", "consequence_start_date">>,
       <<"Suspension_Start_Date", "consequence_start_date">>,
       <<"Consequence_End_Date", "consequence_end_date">>,
       <<"Consequence End Date", "consequence_end_date">>,
       <<"End_Date", "consequence_end_date">>,
       <<"End Date", "consequence_end_date">>,
       <<"Action_End_Date", "consequence_end_date">>,
       <<"Action End Date", "consequence_end_date">>,
       <<"ActionEndDate", "consequence_end_date">>,
       <<"Suspension End Date", "consequence_end_date">>,
       <<"Suspension_End_Date", "consequence_end_date">>,
       <<"Return Date", "consequence_end_date">>,
       <<"Return_Date", "consequence_end_date">>,
       <<"Days_Removed", "days_removed">>,
       <<"Days Removed", "days_removed">>,
       <<"Days_Assigned", "days_removed">>,
       <<"Days Assigned", "days_removed">>,
       <<"DaysAssigned", "days_removed">>,
       <<"Days_Suspended", "days_removed">>,
       <<"Days Suspended", "days_removed">>,
       <<"Number_of_Days", "days_removed">>,
       <<"Number of Days", "days_removed">>,
       <<"Instructional_Minutes_Lost", "instructional_minutes">>,
       <<"Instructional Minutes Lost", "instructional_minutes">>,
       <<"Minutes_Lost", "instructional_minutes">>,
       <<"Minutes Lost", "instructional_minutes">>,
       <<"Instructional_Minutes", "instructional_minutes">>,
       <<"Instructional Minutes", "instructional_minutes">>,
       <<"Race", "race">>,
       <<"Ethnicity", "race">>,
       <<"Race_Ethnicity", "race">>,
       <<"Race/Ethnicity", "race">>,
       <<"Gender", "gender">>,
       <<"Sex", "gender">>,
       <<"Special_Ed", "special_population">>,
       <<"Special Ed", "special_population">>,
       <<"Special_Education", "special_population">>,
       <<"Special Education", "special_population">>,
       <<"IEP", "special_population">>,
       <<"504_Status", "special_population">>,
       <<"504 Status", "special_population">>,
       <<"ELL", "special_population">>,
       <<"LEP", "special_population">> >>

_DEANSLIST_VARIANTS ==
    << <<"Incident ID", "incident_number">>,
       <<"Incident_ID", "incident_number">>,
       <<"Incident Number", "incident_number">>,
       <<"Incident_Number", "incident_number">>,
       <<"Incident Date", "incident_date">>,
       <<"Incident_Date", "incident_date">>,
       <<"Date of Incident", "incident_date">>,
       <<"Date_of_Incident", "incident_date">>,
       <<"School", "campus">>,
       <<"Campus", "campus">>,
       <<"Campus_Name", "campus">>,
       <<"Campus Name", "campus">>,
       <<"Grade", "grade">>,
       <<"Grade Level", "grade">>,
       <<"Grade_Level", "grade">>,
       <<"Student Grade", "grade">>,
       <<"Student_Grade", "grade">>,
       <<"Infraction", "incident_type">>,
       <<"Infraction Type", "incident_type">>,
       <<"Infraction_Type", "incident_type">>,
       <<"Incident Category", "incident_type">>,
       <<"Incident_Category", "incident_type">>,
       <<"Incident Type", "incident_type">>,
       <<"Incident_Type", "incident_type">>,
       <<"Behavior", "incident_type">>,
       <<"Location", "location">>,
       <<"Incident Location", "location">>,
       <<"Incident_Location", "location">>,
       <<"Period", "time_block">>,
       <<"Class Period", "time_block">>,
       <<"Class_Period", "time_block">>,
       <<"Time Block", "time_block">>,
       <<"Time_Block", "time_block">>,
       <<"Action Taken", "response">>,
       <<"Action_Taken", "response">>,
       <<"Staff Response", "response">>,
       <<"Staff_Response", "response">>,
       <<"Consequence", "consequence_type">>,
       <<"Consequence Type", "consequence_type">>,
       <<"Consequence_Type", "consequence_type">>,
       <<"Action Type", "consequence_type">>,
       <<"Action_Type", "consequence_type">>,
       <<"Sanction", "consequence_type">>,
       <<"Sanction Type", "consequence_type">>,
       <<"Sanction_Type", "consequence_type">>,
       <<"Start Date", "consequence_start_date">>,
       <<"Start_Date", "consequence_start_date">>,
       <<"Consequence Start Date", "consequence_start_date">>,
       <<"Consequence_Start_Date", "consequence_start_date">>,
       <<"Begin Date", "consequence_start_date">>,
       <<"Begin_Date", "consequence_start_date">>,
       <<"End Date", "consequence_end_date">>,
       <<"End_Date", "consequence_end_date">>,
       <<"Consequence End Date", "consequence_end_date">>,
       <<"Consequence_End_Date", "consequence_end_date">>,
       <<"Days Removed", "days_removed">>,
       <<"Days_Removed", "days_removed">>,
       <<"Days Suspended", "days_removed">>,
       <<"Days_Suspended", "days_removed">>,
       <<"Number of Days", "days_removed">>,
       <<"Number_of_Days", "days_removed">>,
       <<"Instructional Minutes Lost", "instructional_minutes">>,
       <<"Instructional_Minutes_Lost", "instructional_minutes">>,
       <<"Instructional Minutes", "instructional_minutes">>,
       <<"Instructional_Minutes", "instructional_minutes">>,
       <<"Minutes Lost", "instructional_minutes">>,
       <<"Minutes_Lost", "instructional_minutes">>,
       <<"Race", "race">>,
       <<"Race/Ethnicity", "race">>,
       <<"Ethnicity", "race">>,
       <<"Gender", "gender">>,
       <<"SPED", "special_population">>,
       <<"IEP", "special_population">>,
       <<"ELL", "special_population">>,
       <<"LEP", "special_population">>,
       <<"Special Education", "special_population">>,
       <<"Special_Education", "special_population">>,
       <<"Spec Ed", "special_population">>,
       <<"Spec_Ed", "special_population">>,
       <<"504 Status", "special_population">>,
       <<"504_Status", "special_population">> >>

_INFINITE_CAMPUS_VARIANTS ==
    << <<"Incident Number", "incident_number">>,
       <<"Incident_Number", "incident_number">>,
       <<"Event_ID", "incident_number">>,
       <<"Event ID", "incident_number">>,
       <<"EventID", "incident_number">>,
       <<"Incident Date", "incident_date">>,
       <<"Incident_Date", "incident_date">>,
       <<"Incident Date & Time", "incident_date">>,
       <<"Date of Incident", "incident_date">>,
       <<"Date_of_Incident", "incident_date">>,
       <<"Calendar Name", "campus">>,
       <<"Calendar_Name", "campus">>,
       <<"School Name", "campus">>,
       <<"School_Name", "campus">>,
       <<"Campus", "campus">>,
       <<"Campus Name", "campus">>,
       <<"Campus_Name", "campus">>,
       <<"School", "campus">>,
       <<"Grade", "grade">>,
       <<"Grade Level", "grade">>,
       <<"Grade_Level", "grade">>,
       <<"Student Grade Level", "grade">>,
       <<"Student_Grade_Level", "grade">>,
       <<"Student Grade", "grade">>,
       <<"Student_Grade", "grade">>,
       <<"Event Type", "incident_type">>,
       <<"Event_Type", "incident_type">>,
       <<"Incident Type", "incident_type">>,
       <<"Incident_Type", "incident_type">>,
       <<"Behavior Type", "incident_type">>,
       <<"Behavior_Type", "incident_type">>,
       <<"Location", "location">>,
       <<"Event Location", "location">>,
       <<"Event_Location", "location">>,
       <<"Incident Location", "location">>,
       <<"Incident_Location", "location">>,
       <<"Period", "time_block">>,
       <<"Class Period", "time_block">>,
       <<"Class_Period", "time_block">>,
       <<"Time Block", "time_block">>,
       <<"Time_Block", "time_block">>,
       <<"Staff Response", "response">>,
       <<"Staff_Response", "response">>,
       <<"Action Taken", "response">>,
       <<"Action_Taken", "response">>,
       <<"Resolution Type", "consequence_type">>,
       <<"Resolution_Type", "consequence_type">>,
       <<"Resolution", "consequence_type">>,
       <<"Consequence Type", "consequence_type">>,
       <<"Consequence_Type", "consequence_type">>,
       <<"Action Type", "consequence_type">>,
       <<"Action_Type", "consequence_type">>,
       <<"Intervention Type", "consequence_type">>,
       <<"Intervention_Type", "consequence_type">>,
       <<"Consequence Start", "consequence_start_date">>,
       <<"Consequence_Start", "consequence_start_date">>,
       <<"Consequence Start Date", "consequence_start_date">>,
       <<"Consequence_Start_Date", "consequence_start_date">>,
       <<"Start Date", "consequence_start_date">>,
       <<"Start_Date", "consequence_start_date">>,
       <<"Begin Date", "consequence_start_date">>,
       <<"Begin_Date", "consequence_start_date">>,
       <<"Consequence End", "consequence_end_date">>,
       <<"Consequence_End", "consequence_end_date">>,
       <<"Consequence End Date", "consequence_end_date">>,
       <<"Consequence_End_Date", "consequence_end_date">>,
       <<"End Date", "consequence_end_date">>,
       <<"End_Date", "consequence_end_date">>,
       <<"Return Date", "consequence_end_date">>,
       <<"Return_Date", "consequence_end_date">>,
       <<"Days Removed", "days_removed">>,
       <<"Days_Removed", "days_removed">>,
       <<"Days Suspended", "days_removed">>,
       <<"Days_Suspended", "days_removed">>,
       <<"Number of Days", "days_removed">>,
       <<"Number_of_Days", "days_removed">>,
       <<"Instructional Minutes Lost", "instructional_minutes">>,
       <<"Instructional_Minutes_Lost", "instructional_minutes">>,
       <<"Instructional Minutes", "instructional_minutes">>,
       <<"Instructional_Minutes", "instructional_minutes">>,
       <<"Minutes Lost", "instructional_minutes">>,
       <<"Minutes_Lost", "instructional_minutes">>,
       <<"Race", "race">>,
       <<"Race/Ethnicity", "race">>,
       <<"Ethnicity", "race">>,
       <<"Gender", "gender">>,
       <<"Sex", "gender">>,
       <<"Special Education", "special_population">>,
       <<"Special_Education", "special_population">>,
       <<"IEP", "special_population">>,
       <<"ELL", "special_population">>,
       <<"LEP", "special_population">>,
       <<"504 Status", "special_population">>,
       <<"504_Status", "special_population">>,
       <<"Disability Status", "special_population">>,
       <<"Disability_Status", "special_population">> >>

_TEAMS_VARIANTS ==
    << <<"Incident Nbr", "incident_number">>,
       <<"Incident_Nbr", "incident_number">>,
       <<"Incident Number", "incident_number">>,
       <<"Incident_Number", "incident_number">>,
       <<"Referral Number", "incident_number">>,
       <<"Referral_Number", "incident_number">>,
       <<"Referral #", "incident_number">>,
       <<"Referral#", "incident_number">>,
       <<"Referral ID", "incident_number">>,
       <<"Referral_ID", "incident_number">>,
       <<"Incident Date", "incident_date">>,
       <<"Incident_Date", "incident_date">>,
       <<"Referral Date", "incident_date">>,
       <<"Referral_Date", "incident_date">>,
       <<"Date of Incident", "incident_date">>,
       <<"Date_of_Incident", "incident_date">>,
       <<"Campus", "campus">>,
       <<"Campus ID", "campus">>,
       <<"Campus_ID", "campus">>,
       <<"Campus Number", "campus">>,
       <<"Campus_Number", "campus">>,
       <<"Campus Name", "campus">>,
       <<"Campus_Name", "campus">>,
       <<"School", "campus">>,
       <<"School Name", "campus">>,
       <<"School_Name", "campus">>,
       <<"Grade", "grade">>,
       <<"Grade Level", "grade">>,
       <<"Grade_Level", "grade">>,
       <<"Student Grade", "grade">>,
       <<"Student_Grade", "grade">>,
       <<"Conduct Code", "incident_type">>,
       <<"Conduct_Code", "incident_type">>,
       <<"Offense Code", "incident_type">>,
       <<"Offense_Code", "incident_type">>,
       <<"Incident Type", "incident_type">>,
       <<"Incident_Type", "incident_type">>,
       <<"Conduct", "incident_type">>,
       <<"Location", "location">>,
       <<"Location Code", "location">>,
       <<"Location_Code", "location">>,
       <<"Incident Location", "location">>,
       <<"Incident_Location", "location">>,
       <<"Period", "time_block">>,
       <<"Class Period", "time_block">>,
       <<"Class_Period", "time_block">>,
       <<"Time Block", "time_block">>,
       <<"Time_Block", "time_block">>,
       <<"Action Taken", "response">>,
       <<"Action_Taken", "response">>,
       <<"Staff Response", "response">>,
       <<"Staff_Response", "response">>,
       <<"Consequence Type", "consequence_type">>,
       <<"Consequence_Type", "consequence_type">>,
       <<"Disciplinary Action", "consequence_type">>,
       <<"Disciplinary_Action", "consequence_type">>,
       <<"Removal Type", "consequence_type">>,
       <<"Removal_Type", "consequence_type">>,
       <<"Action Type", "consequence_type">>,
       <<"Action_Type", "consequence_type">>,
       <<"Consequence Start Date", "consequence_start_date">>,
       <<"Consequence_Start_Date", "consequence_start_date">>,
       <<"Removal Begin Date", "consequence_start_date">>,
       <<"Removal_Begin_Date", "consequence_start_date">>,
       <<"Start Date", "consequence_start_date">>,
       <<"Start_Date", "consequence_start_date">>,
       <<"Begin Date", "consequence_start_date">>,
       <<"Begin_Date", "consequence_start_date">>,
       <<"DAEP Begin Date", "consequence_start_date">>,
       <<"DAEP_Begin_Date", "consequence_start_date">>,
       <<"Suspension Start Date", "consequence_start_date">>,
       <<"Suspension_Start_Date", "consequence_start_date">>,
       <<"Consequence End Date", "consequence_end_date">>,
       <<"Consequence_End_Date", "consequence_end_date">>,
       <<"Removal End Date", "consequence_end_date">>,
       <<"Removal_End_Date", "consequence_end_date">>,
       <<"End Date", "consequence_end_date">>,
       <<"End_Date", "consequence_end_date">>,
       <<"DAEP End Date", "consequence_end_date">>,
       <<"DAEP_End_Date", "consequence_end_date">>,
       <<"Suspension End Date", "consequence_end_date">>,
       <<"Suspension_End_Date", "consequence_end_date">>,
       <<"Return Date", "consequence_end_date">>,
       <<"Return_Date", "consequence_end_date">>,
       <<"Days Removed", "days_removed">>,
       <<"Days_Removed", "days_removed">>,
       <<"Removal Days", "days_removed">>,
       <<"Removal_Days", "days_removed">>,
       <<"Days Suspended", "days_removed">>,
       <<"Days_Suspended", "days_removed">>,
       <<"Number of Days", "days_removed">>,
       <<"Number_of_Days", "days_removed">>,
       <<"Days of Removal", "days_removed">>,
       <<"Days_of_Removal", "days_removed">>,
       <<"Instructional Minutes Lost", "instructional_minutes">>,
       <<"Instructional_Minutes_Lost", "instructional_minutes">>,
       <<"Instructional Minutes", "instructional_minutes">>,
       <<"Instructional_Minutes", "instructional_minutes">>,
       <<"Minutes Lost", "instructional_minutes">>,
       <<"Minutes_Lost", "instructional_minutes">>,
       <<"Race", "race">>,
       <<"Race/Ethnicity", "race">>,
       <<"Ethnicity", "race">>,
       <<"Race Ethnicity", "race">>,
       <<"Race_Ethnicity", "race">>,
       <<"Gender", "gender">>,
       <<"Sex", "gender">>,
       <<"Special Education", "special_population">>,
       <<"Special_Education", "special_population">>,
       <<"Special Ed", "special_population">>,
       <<"Special_Ed", "special_population">>,
       <<"SPED", "special_population">>,
       <<"IEP", "special_population">>,
       <<"ELL", "special_population">>,
       <<"LEP", "special_population">>,
       <<"ESL", "special_population">>,
       <<"At Risk", "special_population">>,
       <<"At_Risk", "special_population">> >>

_GENERIC_VARIANTS ==
    << <<"Incident Number", "incident_number">>,
       <<"Incident_Number", "incident_number">>,
       <<"IncidentNumber", "incident_number">>,
       <<"Incident #", "incident_number">>,
       <<"Incident#", "incident_number">>,
       <<"Inc Number", "incident_number">>,
       <<"Inc_Number", "incident_number">>,
       <<"Inc #", "incident_number">>,
       <<"Inc#", "incident_number">>,
       <<"Incident ID", "incident_number">>,
       <<"Incident_ID", "incident_number">>,
       <<"Incident Date & Time", "incident_date">>,
       <<"Incident Date and Time", "incident_date">>,
       <<"Incident_Date_Time", "incident_date">>,
       <<"Incident_Date", "incident_date">>,
       <<"Incident Date", "incident_date">>,
       <<"Incident DateTime", "incident_date">>,
       <<"Incident_DateTime", "incident_date">>,
       <<"Date of Incident", "incident_date">>,
       <<"Date_of_Incident", "incident_date">>,
       <<"Date", "incident_date">>,
       <<"Campus", "campus">>,
       <<"Campus_Name", "campus">>,
       <<"Campus Name", "campus">>,
       <<"School", "campus">>,
       <<"School Name", "campus">>,
       <<"School_Name", "campus">>,
       <<"Building", "campus">>,
       <<"Building Name", "campus">>,
       <<"Building_Name", "campus">>,
       <<"Entity Code", "campus">>,
       <<"Entity_Code", "campus">>,
       <<"Grade", "grade">>,
       <<"Grade Level", "grade">>,
       <<"Grade_Level", "grade">>,
       <<"Student Grade", "grade">>,
       <<"Student_Grade", "grade">>,
       <<"Student Grade Level", "grade">>,
       <<"Student_Grade_Level", "grade">>,
       <<"GradeLevel", "grade">>,
       <<"Grade Lvl", "grade">>,
       <<"Grade_Lvl", "grade">>,
       <<"Incident Type", "incident_type">>,
       <<"Incident_Type", "incident_type">>,
       <<"Behavior Type", "incident_type">>,
       <<"Behavior_Type", "incident_type">>,
       <<"Infraction Type", "incident_type">>,
       <<"Infraction_Type", "incident_type">>,
       <<"Violation", "incident_type">>,
       <<"Violation Type", "incident_type">>,
       <<"Violation_Type", "incident_type">>,
       <<"Incident Category", "incident_type">>,
       <<"Incident_Category", "incident_type">>,
       <<"Location", "location">>,
       <<"Incident Location", "location">>,
       <<"Incident_Location", "location">>,
       <<"Time Block", "time_block">>,
       <<"Time_Block", "time_block">>,
       <<"Class Period", "time_block">>,
       <<"Class_Period", "time_block">>,
       <<"Period", "time_block">>,
       <<"TimeBlock", "time_block">>,
       <<"Time Period", "time_block">>,
       <<"Time_Period", "time_block">>,
       <<"Block", "time_block">>,
       <<"Response", "response">>,
       <<"Action Taken", "response">>,
       <<"Action_Taken", "response">>,
       <<"Staff Response", "response">>,
       <<"Staff_Response", "response">>,
       <<"Teacher Response", "response">>,
       <<"Teacher_Response", "response">>,
       <<"Teacher Action", "response">>,
       <<"Teacher_Action", "response">>,
       <<"Consequence Type", "consequence_type">>,
       <<"Consequence_Type", "consequence_type">>,
       <<"Action Type", "consequence_type">>,
       <<"Action_Type", "consequence_type">>,
       <<"Response Type", "consequence_type">>,
       <<"Response_Type", "consequence_type">>,
       <<"Consequence", "consequence_type">>,
       <<"Sanction", "consequence_type">>,
       <<"Sanction Type", "consequence_type">>,
       <<"Sanction_Type", "consequence_type">>,
       <<"Intervention Type", "consequence_type">>,
       <<"Intervention_Type", "consequence_type">>,
       <<"Disciplinary Action", "consequence_type">>,
       <<"Disciplinary_Action", "consequence_type">>,
       <<"Removal Type", "consequence_type">>,
       <<"Removal_Type", "consequence_type">>,
       <<"Resolution Type", "consequence_type">>,
       <<"Resolution_Type", "consequence_type">>,
       <<"Resolution", "consequence_type">>,
       <<"Consequence Start Date", "consequence_start_date">>,
       <<"Consequence_Start_Date", "consequence_start_date">>,
       <<"Start Date", "consequence_start_date">>,
       <<"Start_Date", "consequence_start_date">>,
       <<"Begin Date", "consequence_start_date">>,
       <<"Begin_Date", "consequence_start_date">>,
       <<"Consequence Start", "consequence_start_date">>,
       <<"Consequence_Start", "consequence_start_date">>,
       <<"Removal Begin Date", "consequence_start_date">>,
       <<"Removal_Begin_Date", "consequence_start_date">>,
       <<"Action Start Date", "consequence_start_date">>,
       <<"Action_Start_Date", "consequence_start_date">>,
       <<"Suspension Start Date", "consequence_start_date">>,
       <<"Suspension_Start_Date", "consequence_start_date">>,
       <<"Consequence End Date", "consequence_end_date">>,
       <<"Consequence_End_Date", "consequence_end_date">>,
       <<"End Date", "consequence_end_date">>,
       <<"End_Date", "consequence_end_date">>,
       <<"Consequence End", "consequence_end_date">>,
       <<"Consequence_End", "consequence_end_date">>,
       <<"Removal End Date", "consequence_end_date">>,
       <<"Removal_End_Date", "consequence_end_date">>,
       <<"Action End Date", "consequence_end_date">>,
       <<"Action_End_Date", "consequence_end_date">>,
       <<"Suspension End Date", "consequence_end_date">>,
       <<"Suspension_End_Date", "consequence_end_date">>,
       <<"Return Date", "consequence_end_date">>,
       <<"Return_Date", "consequence_end_date">>,
       <<"Days Removed", "days_removed">>,
       <<"Days_Removed", "days_removed">>,
       <<"Days Suspended", "days_removed">>,
       <<"Days_Suspended", "days_removed">>,
       <<"Number of Days", "days_removed">>,
       <<"Number_of_Days", "days_removed">>,
       <<"Days Assigned", "days_removed">>,
       <<"Days_Assigned", "days_removed">>,
       <<"Removal Days", "days_removed">>,
       <<"Removal_Days", "days_removed">>,
       <<"Num Days", "days_removed">>,
       <<"Num_Days", "days_removed">>,
       <<"Nbr Days", "days_removed">>,
       <<"Nbr_Days", "days_removed">>,
       <<"# Days", "days_removed">>,
       <<"Days of Removal", "days_removed">>,
       <<"Days_of_Removal", "days_removed">>,
       <<"Instructional Minutes Lost", "instructional_minutes">>,
       <<"Instructional_Minutes_Lost", "instructional_minutes">>,
       <<"Minutes Lost", "instructional_minutes">>,
       <<"Minutes_Lost", "instructional_minutes">>,
       <<"Instructional_Minutes", "instructional_minutes">>,
       <<"Instructional Minutes", "instructional_minutes">>,
       <<"Inst Minutes", "instructional_minutes">>,
       <<"Inst_Minutes", "instructional_minutes">>,
       <<"Minutes Removed", "instructional_minutes">>,
       <<"Minutes_Removed", "instructional_minutes">>,
       <<"Minutes of Removal", "instructional_minutes">>,
       <<"Minutes_of_Removal", "instructional_minutes">>,
       <<"Race", "race">>,
       <<"Ethnicity", "race">>,
       <<"Race/Ethnicity", "race">>,
       <<"Race Ethnicity", "race">>,
       <<"Race_Ethnicity", "race">>,
       <<"Student Race", "race">>,
       <<"Student_Race", "race">>,
       <<"Student Ethnicity", "race">>,
       <<"Student_Ethnicity", "race">>,
       <<"Racial/Ethnic Group", "race">>,
       <<"Racial_Ethnic_Group", "race">>,
       <<"Gender", "gender">>,
       <<"Sex", "gender">>,
       <<"Student Gender", "gender">>,
       <<"Student_Gender", "gender">>,
       <<"Student Sex", "gender">>,
       <<"Student_Sex", "gender">>,
       <<"Special Population", "special_population">>,
       <<"Special_Population", "special_population">>,
       <<"Special Education", "special_population">>,
       <<"Special_Education", "special_population">>,
       <<"Spec Ed", "special_population">>,
       <<"Spec_Ed", "special_population">>,
       <<"Special Ed", "special_population">>,
       <<"Special_Ed", "special_population">>,
       <<"SPED", "special_population">>,
       <<"IEP", "special_population">>,
       <<"ELL", "special_population">>,
       <<"LEP", "special_population">>,
       <<"ESL", "special_population">>,
       <<"Disability", "special_population">>,
       <<"Disability Status", "special_population">>,
       <<"Disability_Status", "special_population">>,
       <<"504 Status", "special_population">>,
       <<"504_Status", "special_population">>,
       <<"IEP Status", "special_population">>,
       <<"IEP_Status", "special_population">>,
       <<"English Learner", "special_population">>,
       <<"English_Learner", "special_population">>,
       <<"Limited English Proficient", "special_population">>,
       <<"Limited_English_Proficient", "special_population">>,
       <<"At Risk", "special_population">>,
       <<"At_Risk", "special_population">>,
       <<"Economically Disadvantaged", "special_population">>,
       <<"Economically_Disadvantaged", "special_population">> >>

\* The source registry: (label, table) in the order the lookup is built.
_ALL_SOURCES ==
    << <<"Skyward", _SKYWARD_VARIANTS>>,
       <<"PowerSchool", _POWERSCHOOL_VARIANTS>>,
       <<"DeansList", _DEANSLIST_VARIANTS>>,
       <<"Infinite Campus", _INFINITE_CAMPUS_VARIANTS>>,
       <<"TEAMS", _TEAMS_VARIANTS>>,
       <<"Generic", _GENERIC_VARIANTS>> >>

(***************************************************************************)
(* column_mapper.py: the combined lookup and the public API.  A DataFrame  *)
(* is passed as its columns, the only part the functions read.             *)
(***************************************************************************)
\* The items of all the tables of the registry, in the order the two loops
\* of _build_alias_lookup visit them: <<sis_name, raw_variant, normalized_key>>.
RECURSIVE SourceItems(_)
SourceItems(sources) ==
    IF Len(sources) = 0 THEN <<>>
    ELSE [i \in 1..Len(sources[1][2]) |->
            <<sources[1][1], sources[1][2][i][1], sources[1][2][i][2]>>]
         \o SourceItems(Tail(sources))

\* The ValueError of _build_alias_lookup, by the parts of its message.
AliasConflict(item, existing) ==
    [kind |-> "ValueError", sis_name |-> item[1], raw_variant |-> item[2],
     normalized_variant |-> Lower(Strip(item[2])), normalized_key |-> item[3],
     existing |-> existing]

\* raw_variant.strip().lower() of every item
NormalizedVariants(items) == <<>> \o [i \in 1..Len(items) |-> Lower(Strip(items[i][2]))]

\* For every item, the position of the first item with its normalized
\* variant: the item whose key the lookup holds when the loop gets there.
FirstWithVariant(normalized) ==
    <<>> \o
    [i \in 1..Len(normalized) |->
        CHOOSE j \in 1..i :
           /\ normalized[j] = normalized[i]
           /\ \A k \in 1..(j - 1) : normalized[k] # normalized[i]]

\* The loop of _build_alias_lookup over the items: it keeps for every
\* normalized variant the key of the first item that carries it, skips a
\* later item with the same key, and raises at the first later item with
\* another key.
AliasLoop(items, normalized, first) ==
    LET conflicts == {i \in 1..Len(items) : items[first[i]][3] # items[i][3]}
    IN  IF conflicts # {}
        THEN LET i == CHOOSE c \in conflicts : \A d \in conflicts : c <= d
             IN  AliasConflict(items[i], items[first[i]][3])
        ELSE [kind |-> "ok",
              lookup |-> [v \in Range(normalized) |->
                            items[CHOOSE i \in 1..Len(items) :
                                     normalized[i] = v /\ first[i] = i][3]]]

\* A faulty variant, which C17 must tell from the real one: a later item
\* with another key overwrites the earlier one and nothing is raised.
BuildLastWins(sources) ==
    LET items == SourceItems(sources)
        normalized == NormalizedVariants(items)
    IN  [kind |-> "ok",
         lookup |-> [v \in Range(normalized) |->
                       items[CHOOSE i \in 1..Len(items) :
                                /\ normalized[i] = v
                                /\ \A j \in (i + 1)..Len(items) : normalized[j] # v][3]]]

\* A faulty variant, which C18 must tell from the real one: the variants are
\* trimmed but not lowercased before they become keys.
BuildTrimmedKeys(sources) ==
    LET items == SourceItems(sources)
        trimmed == <<>> \o [i \in 1..Len(items) |-> Strip(items[i][2])]
    IN  AliasLoop(items, trimmed, FirstWithVariant(trimmed))

\* _build_alias_lookup() for a value of _ALL_SOURCES: the lookup it returns
\* (normalized variant -> normalized key) or the ValueError it raises.
_build_alias_lookup(sources) ==
    AliasLoop(SourceItems(sources),
              NormalizedVariants(SourceItems(sources)),
              FirstWithVariant(NormalizedVariants(SourceItems(sources))))

\* Module-level alias lookup, built once at import.
_ALIAS_LOOKUP == _build_alias_lookup(_ALL_SOURCES).lookup

\* A dict kept as the sequence of its items: key in d, d[key] = value.
DictHas(d, key) == \E i \in 1..Len(d) : d[i][1] = key

DictSet(d, key, value) ==
    IF DictHas(d, key)
    THEN [i \in 1..Len(d) |-> IF d[i][1] = key THEN <<key, value>> ELSE d[i]]
    ELSE Append(d, <<key, value>>)

\* A faulty variant, which C15 must tell from the real one: the header is
\* trimmed but not lowercased before it is looked up.
ResolveCaseSensitive(columns, file_label) ==
    LET F[i \in 0..Len(columns)] ==
            IF i = 0 THEN <<>>
            ELSE IF Strip(columns[i]) \in DOMAIN _ALIAS_LOOKUP
                 THEN DictSet(F[i - 1], columns[i], _ALIAS_LOOKUP[Strip(columns[i])])
                 ELSE F[i - 1]
    IN  F[Len(columns)]

\* A faulty variant, which C16 must tell from the real one: only the file
\* labelled "incident" has its columns resolved.
ResolveIncidentOnly(columns, file_label) ==
    LET F[i \in 0..Len(columns)] ==
            IF i = 0 THEN <<>>
            ELSE IF file_label = "incident" /\ Lower(Strip(columns[i])) \in DOMAIN _ALIAS_LOOKUP
                 THEN DictSet(F[i - 1], columns[i], _ALIAS_LOOKUP[Lower(Strip(columns[i]))])
                 ELSE F[i - 1]
    IN  F[Len(columns)]

\* resolve_columns(df, file_label): the dict {raw_header: normalized_key} of
\* the columns whose trimmed, lowercased text is a key of the lookup.
resolve_columns(columns, file_label) ==
    LET F[i \in 0..Len(columns)] ==
            IF i = 0 THEN <<>>
            ELSE IF Lower(Strip(columns[i])) \in DOMAIN _ALIAS_LOOKUP
                 THEN DictSet(F[i - 1], columns[i], _ALIAS_LOOKUP[Lower(Strip(columns[i]))])
                 ELSE F[i - 1]
    IN  F[Len(columns)]

\* A faulty variant, which C14 must tell from the real one: the trimmed
\* header is looked for among the resolved ones.
UnmatchedByTrimmedName(columns, resolved_map) ==
    SelectPositions(columns,
                    {i \in 1..Len(columns) : ~DictHas(resolved_map, Strip(columns[i]))})

\* get_unmatched_columns(df, resolved_map)
get_unmatched_columns(columns, resolved_map) ==
    SelectPositions(columns, {i \in 1..Len(columns) : ~DictHas(resolved_map, columns[i])})

(***************************************************************************)
(* The inputs of a run.  A file is what pd.read_csv(path, dtype=str) makes *)
(* of it: text cells, NaN for blank cells, the raw header row as labels.   *)
(***************************************************************************)
MaxIncRows == 2
MaxConRows == 2
MaxMinutesRows == 2
GateRows == 20

SeqsUpTo(S, n) == UNION {[1..k -> S] : k \in 0..n}

Frame(cols, rows) == [cols |-> cols, idx |-> [i \in 1..Len(rows) |-> i - 1], rows |-> rows]

GoodFile(path, df) ==
    [path |-> path, exists |-> TRUE, parseable |-> TRUE, parse_error |-> "", df |-> df]

MissingFile(path) ==
    [path |-> path, exists |-> FALSE, parseable |-> FALSE, parse_error |-> "", df |-> None]

BadFile(path) ==
    [path |-> path, exists |-> TRUE, parseable |-> FALSE,
     parse_error |-> "No columns to parse from file", df |-> None]

IncPath == "/data/incident.csv"
ConPath == "/data/consequence.csv"

\* A well-formed cell for a raw header, by the field the header stands for.
DefaultCell(h) ==
    LET k == _normalize_header(h)
        f == IF k \in DOMAIN HEADER_VARIANT_MAP THEN HEADER_VARIANT_MAP[k] ELSE k
    IN  CASE f \in {"incident_number", "id"} -> <<"A">>
          [] f \in {"incident_date", "when"} -> <<"2024-09-10">>
          [] f \in {"campus", "where"} -> <<"North">>
          [] f = "consequence_type" -> <<"OSS">>
          [] f = "consequence_start_date" -> <<"2024-09-11">>
          [] f = "consequence_end_date" -> <<"2024-09-13">>
          [] f = "instructional_minutes" -> <<"60">>
          [] OTHER -> <<"x">>

DefaultRow(cols) == [j \in 1..Len(cols) |-> DefaultCell(cols[j])]

\* --- the header family: one well-formed row under varying header rows ----
IncHeaderChoices ==
    { <<"Incident Number", "Incident Date & Time", "Building">>,
      <<" INCIDENT_NUMBER ", "date", "School", "Grade">>,
      <<"Incident Number", "Building">>,
      <<"ID", "When", "Where">>,
      <<"Incident Number", "inc_number", "Date", "Campus">>,
      <<"Incident Number", "Date", "Campus", "_start_parsed">>,
      <<"Incident Number", "Date", "Campus", "Minutes Lost">>,
      <<"Incident Number", "Date", "Campus", "Start Date">>,
      <<"Offense_ID", "Incident Date", "Campus">>,
      <<"Referral Number", "Incident Date", "Campus">> }

ConHeaderChoices ==
    { <<"Incident Number", "Consequence Type", "Consequence Start Date", "Consequence End Date">>,
      <<"inc number", "Action Type", "start_date", "END DATE", "Minutes Lost", "Campus">>,
      <<"Incident Number", "Start Date", "End Date">>,
      <<"Consequence Type", "Notes">>,
      <<"Incident Number", "Action Type", "Consequence Type", "Start Date", "End Date">>,
      <<"Incident Number", "Action Type", "Start Date", "Begin Date", "End Date">>,
      <<"Incident Number", "incident #", "Action Type", "Start Date", "End Date">>,
      <<"Incident Number", "Action Type", "Start Date", "End Date", "Minutes Lost",
        "instructional_minutes">> }

OverrideChoices ==
    { <<>>,
      [incident |-> ("ID" :> "incident_number") @@ ("When" :> "incident_date")
                    @@ ("Where" :> "campus")],
      [consequence |-> <<>>] }

HeaderFamily ==
    { [inc |-> GoodFile(IncPath, Frame(hi, <<DefaultRow(hi)>>)),
       con |-> GoodFile(ConPath, Frame(hc, <<DefaultRow(hc)>>)),
       ovr |-> o] : hi \in IncHeaderChoices, hc \in ConHeaderChoices, o \in OverrideChoices }

\* --- the file family: files that are missing or do not parse ------------
FileChoices(path, cols) ==
    {GoodFile(path, Frame(cols, <<DefaultRow(cols)>>)), MissingFile(path), BadFile(path)}

FileFamily ==
    { [inc |-> fi, con |-> fc, ovr |-> <<>>] :
        fi \in FileChoices(IncPath, <<"Incident Number", "Date", "Campus">>),
        fc \in FileChoices(ConPath, <<"Incident Number", "Action Type", "Start Date",
                                      "End Date">>) }

\* --- the row family: varying rows under fixed header rows ---------------
IncRowCols == <<"Incident Number", "Date", "Campus">>

IncRowChoices ==
    { <<id, <<"2024-09-10">>, <<"North">>>> : id \in {<<"A">>, <<" B ">>, NaN} }

ConRowCols == <<"Incident Number", "Action Type", "Start Date", "End Date", "Campus">>

\* identifier, consequence type, start, end, campus
ConRowChoices ==
    { << <<"A">>, <<"ISS">>,       <<"09/11/2024">>, <<"09/13/2024">>, <<"North">> >>,
      << <<"B">>, <<" oss">>,      <<"2024-09-14">>, <<"2024-09-14">>, <<"North">> >>,
      << NaN,     <<"OSS">>,       <<"2024-09-11">>, <<"2024-09-11">>, <<"North">> >>,
      << <<"A">>, <<"DETENTION">>, <<"2024-09-11">>, <<"2024-09-13">>, <<"North">> >>,
      << <<"B">>, NaN,             <<"2024-09-13">>, <<"2024-09-11">>, <<"North">> >>,
      << <<"A">>, <<"DAEP">>,      <<"tomorrow">>,   <<"2024-09-13">>, <<"North">> >>,
      << <<"B">>, <<"JJAEP">>,     <<"2024-09-11">>, NaN,              <<"North">> >>,
      << <<"A">>, <<"Expulsion">>, <<"9/13/24">>,    <<"2024-09-11 08:00:00">>, <<"North">> >> }

\* The incident frames the consequence rows are varied against.
IncRowFrames ==
    { << <<<<"A">>, <<"2024-09-10">>, <<"North">>>> >>,
      << <<<<" B ">>, <<"2024-09-10">>, <<"North">>>> >>,
      << <<<<"A">>, <<"2024-09-10">>, <<"North">>>>, <<<<" B ">>, <<"2024-09-10">>, <<"North">>>> >>,
      << <<<<" B ">>, <<"2024-09-10">>, <<"North">>>>, <<NaN, <<"2024-09-10">>, <<"North">>>> >> }

\* Up to MaxIncRows incident rows against at most one consequence row, and
\* up to MaxConRows consequence rows against the frames above.
RowFamily ==
    { [inc |-> GoodFile(IncPath, Frame(IncRowCols, ri)),
       con |-> GoodFile(ConPath, Frame(ConRowCols, rc)),
       ovr |-> <<>>] :
        ri \in SeqsUpTo(IncRowChoices, MaxIncRows), rc \in SeqsUpTo(ConRowChoices, 1) }
    \cup
    { [inc |-> GoodFile(IncPath, Frame(IncRowCols, ri)),
       con |-> GoodFile(ConPath, Frame(ConRowCols, rc)),
       ovr |-> <<>>] :
        ri \in IncRowFrames, rc \in SeqsUpTo(ConRowChoices, MaxConRows) }

\* --- the minutes family: varying explicit minutes on matched rows -------
MinutesCols == <<"Incident Number", "Action Type", "Start Date", "End Date", "Minutes Lost">>

MinutesChoices ==
    { <<"720">>, <<" 45 ">>, <<"0.5">>, <<"720.9">>, <<"0">>, <<"-5">>, <<"abc">>, <<"inf">>, NaN }

MinutesRowChoices ==
    { << <<"A">>, <<"OSS">>, <<"2024-09-11">>, <<"2024-09-13">>, m >> : m \in MinutesChoices }

MinutesFamily ==
    { [inc |-> GoodFile(IncPath, Frame(IncRowCols, << <<<<"A">>, <<"2024-09-10">>, <<"North">>>> >>)),
       con |-> GoodFile(ConPath, Frame(MinutesCols, rc)),
       ovr |-> <<>>] : rc \in SeqsUpTo(MinutesRowChoices, MaxMinutesRows) }

\* --- the gate family: n incidents, the first k of them with a consequence
GateIncRows(n) == [i \in 1..n |-> << <<ToString(i)>>, <<"2024-09-10">>, <<"North">> >>]

GateConRows(k) ==
    [i \in 1..k |-> << <<ToString(i)>>, <<"OSS">>, <<"2024-09-11">>, <<"2024-09-13">>,
                       <<"North">> >>]

GateFamily ==
    { [inc |-> GoodFile(IncPath, Frame(IncRowCols, GateIncRows(n))),
       con |-> GoodFile(ConPath, Frame(ConRowCols, GateConRows(k))),
       ovr |-> <<>>] : n \in {GateRows}, k \in 0..GateRows }

\* --- the normalize family: identifiers with a byte-order mark, zero-width
\* characters and blanks around and inside them
DirtyCells == { <<"A">>, <<"^A">>, <<"A~ ">>, <<" ^A|@ ">>, <<"A^B">>, <<"^ ">>, NaN }

NormalizeFamily ==
    { [inc |-> GoodFile(IncPath, Frame(IncRowCols, << <<a, <<"2024-09-10">>, <<"North ">>>> >>)),
       con |-> GoodFile(ConPath, Frame(ConRowCols,
                  << <<b, <<"OSS">>, <<"2024-09-11">>, <<"2024-09-13">>, <<"North">>>> >>)),
       ovr |-> <<>>] : a \in DirtyCells, b \in DirtyCells }

\* --- an operator override that names a column as stage 6 names its own ---
RenamingOverride ==
    [incident |-> ("ID" :> "incident_number") @@ ("When" :> "incident_date")
                  @@ ("Where" :> "campus") @@ ("Note" :> "_end_parsed")]

OverrideFamily ==
    { [inc |-> GoodFile(IncPath, Frame(hi, <<DefaultRow(hi)>>)),
       con |-> GoodFile(ConPath, Frame(hc, <<DefaultRow(hc)>>)),
       ovr |-> RenamingOverride] :
        hi \in {<<"ID", "When", "Where", "Note">>, <<"ID", "When", "Where">>},
        hc \in {<<"Incident Number", "Consequence Type", "Consequence Start Date",
                  "Consequence End Date">>} }

Inputs ==
    HeaderFamily \cup FileFamily \cup RowFamily \cup MinutesFamily \cup GateFamily
    \cup NormalizeFamily \cup OverrideFamily

\* A call of run_ingestion.
RunInit ==
    /\ pc = "step1"
    /\ call = None /\ ret = None
    /\ previous = None /\ other = None
    /\ \E in \in Inputs :
        /\ incident_file = in.inc
        /\ consequence_file = in.con
        /\ operator_column_overrides = in.ovr
    /\ timestamp = "2026-01-01T00:00:00"
    /\ inc_df = None /\ con_df = None
    /\ incident_row_count = 0 /\ consequence_row_count = 0
    /\ flags = <<>> /\ exclusions = <<>> /\ alias_map_log = None
    /\ joined = None /\ matched_incidents = 0 /\ join_success = None
    /\ explicit_minutes_count = 0 /\ date_derived_count = 0
    /\ result = None /\ error = None /\ exception = None

(***************************************************************************)
(* A second call of run_ingestion in the same process, on the files of the *)
(* first: alone, or next to a call on another pair of files in a second    *)
(* thread, the two taking turns between their stages.                      *)
(***************************************************************************)
Ended == {"done", "halted", "crashed"}

\* What the caller of a finished run holds.
Outcome == [pc |-> pc, result |-> result, error |-> error, exception |-> exception]

\* Everything one run of run_ingestion owns: its arguments, its locals and
\* what it returned or raised.
RunState(id) ==
    [id |-> id, pc |-> pc,
     incident_file |-> incident_file, consequence_file |-> consequence_file,
     operator_column_overrides |-> operator_column_overrides, timestamp |-> timestamp,
     inc_df |-> inc_df, con_df |-> con_df,
     incident_row_count |-> incident_row_count,
     consequence_row_count |-> consequence_row_count,
     flags |-> flags, exclusions |-> exclusions, alias_map_log |-> alias_map_log,
     joined |-> joined, matched_incidents |-> matched_incidents,
     join_success |-> join_success,
     explicit_minutes_count |-> explicit_minutes_count,
     date_derived_count |-> date_derived_count,
     result |-> result, error |-> error, exception |-> exception]

\* A faulty variant, which C22 must tell from the real one: flags and
\* exclusions are lists of the module that every call appends to.
EnteredWithModuleLists(id, in, now) ==
    [id |-> id, pc |-> "step1",
     incident_file |-> in.inc, consequence_file |-> in.con,
     operator_column_overrides |-> in.ovr, timestamp |-> now,
     inc_df |-> None, con_df |-> None,
     incident_row_count |-> 0, consequence_row_count |-> 0,
     flags |-> flags, exclusions |-> exclusions, alias_map_log |-> None,
     joined |-> None, matched_incidents |-> 0, join_success |-> None,
     explicit_minutes_count |-> 0, date_derived_count |-> 0,
     result |-> None, error |-> None, exception |-> None]

\* A run at its entry: flags, exclusions and norm_log are new empty lists of
\* the call, the clock has been read.
Entered(id, in, now) ==
    [id |-> id, pc |-> "step1",
     incident_file |-> in.inc, consequence_file |-> in.con,
     operator_column_overrides |-> in.ovr, timestamp |-> now,
     inc_df |-> None, con_df |-> None,
     incident_row_count |-> 0, consequence_row_count |-> 0,
     flags |-> <<>>, exclusions |-> <<>>, alias_map_log |-> None,
     joined |-> None, matched_incidents |-> 0, join_success |-> None,
     explicit_minutes_count |-> 0, date_derived_count |-> 0,
     result |-> None, error |-> None, exception |-> None]

\* A faulty variant, which C23 must tell from the real one: the flags and the
\* exclusions are one pair of lists that the two threads share.
ResumeWithSharedLists(r) ==
    /\ pc' = r.pc
    /\ incident_file' = r.incident_file /\ consequence_file' = r.consequence_file
    /\ operator_column_overrides' = r.operator_column_overrides
    /\ timestamp' = r.timestamp
    /\ inc_df' = r.inc_df /\ con_df' = r.con_df
    /\ incident_row_count' = r.incident_row_count
    /\ consequence_row_count' = r.consequence_row_count
    /\ flags' = flags /\ exclusions' = exclusions /\ alias_map_log' = r.alias_map_log
    /\ joined' = r.joined /\ matched_incidents' = r.matched_incidents
    /\ join_success' = r.join_success
    /\ explicit_minutes_count' = r.explicit_minutes_count
    /\ date_derived_count' = r.date_derived_count
    /\ result' = r.result /\ error' = r.error /\ exception' = r.exception

\* The thread of run r goes on: its arguments and locals are the ones in use.
Resume(r) ==
    /\ pc' = r.pc
    /\ incident_file' = r.incident_file /\ consequence_file' = r.consequence_file
    /\ operator_column_overrides' = r.operator_column_overrides
    /\ timestamp' = r.timestamp
    /\ inc_df' = r.inc_df /\ con_df' = r.con_df
    /\ incident_row_count' = r.incident_row_count
    /\ consequence_row_count' = r.consequence_row_count
    /\ flags' = r.flags /\ exclusions' = r.exclusions /\ alias_map_log' = r.alias_map_log
    /\ joined' = r.joined /\ matched_incidents' = r.matched_incidents
    /\ join_success' = r.join_success
    /\ explicit_minutes_count' = r.explicit_minutes_count
    /\ date_derived_count' = r.date_derived_count
    /\ result' = r.result /\ error' = r.error /\ exception' = r.exception

\* datetime.now() of the second call: the same second or a later one.
Clock == {"2026-01-01T00:00:00", "2026-01-01T00:00:07"}

\* --- the file pairs run_ingestion is called on a second time --------------
IncRowsOf(ids) == [k \in 1..Len(ids) |-> <<ids[k], <<"2024-09-10">>, <<"North">>>>]

ConRowOf(ctype) == CHOOSE r \in ConRowChoices : r[2] = <<ctype>>

RowInput(ids, ctypes) ==
    [inc |-> GoodFile(IncPath, Frame(IncRowCols, IncRowsOf(ids))),
     con |-> GoodFile(ConPath, Frame(ConRowCols, [k \in 1..Len(ctypes) |-> ConRowOf(ctypes[k])])),
     ovr |-> <<>>]

HeaderInput(hi, hc, o) ==
    [inc |-> GoodFile(IncPath, Frame(hi, <<DefaultRow(hi)>>)),
     con |-> GoodFile(ConPath, Frame(hc, <<DefaultRow(hc)>>)),
     ovr |-> o]

GoodConHeaders ==
    <<"Incident Number", "Consequence Type", "Consequence Start Date", "Consequence End Date">>

\* A success with an exclusion, a halt at the join gate, and a run that two
\* columns renamed to incident_number end with an AttributeError.
Companions ==
    { RowInput(<< <<"A">> >>, <<"ISS", "DETENTION">>),
      RowInput(<< <<"A">>, <<" B ">> >>, <<"ISS">>),
      HeaderInput(<<"Incident Number", "inc_number", "Date", "Campus">>, GoodConHeaders, <<>>) }

AgainInputs ==
    Companions \cup
    { RowInput(<< <<" B ">>, NaN >>, <<"OSS">>),
      RowInput(<< <<"A">> >>, <<"DAEP", "JJAEP">>),
      RowInput(<< <<"A">>, <<" B ">> >>, <<"ISS", " oss">>),
      HeaderInput(<<"Incident Number", "Building">>, GoodConHeaders, <<>>),
      HeaderInput(<<"ID", "When", "Where">>, GoodConHeaders,
                  [incident |-> ("ID" :> "incident_number") @@ ("When" :> "incident_date")
                                @@ ("Where" :> "campus")]),
      [inc |-> MissingFile(IncPath),
       con |-> GoodFile(ConPath, Frame(<<"Incident Number", "Action Type", "Start Date",
                                         "End Date">>,
                                       <<DefaultRow(<<"Incident Number", "Action Type",
                                                      "Start Date", "End Date">>)>>)),
       ovr |-> <<>>] }

\* run_ingestion(incident_path, consequence_path, overrides) once more, after
\* the first call has returned or raised; a second thread may enter a call
\* on another pair of files at the same moment.
RunAgain ==
    /\ pc \in Ended
    /\ call = None /\ previous = None /\ other = None
    /\ [inc |-> incident_file, con |-> consequence_file, ovr |-> operator_column_overrides]
          \in AgainInputs
    /\ previous' = Outcome
    /\ \E now \in Clock :
         /\ Resume(Entered("first", [inc |-> incident_file, con |-> consequence_file,
                                       ovr |-> operator_column_overrides], now))
         /\ \/ other' = None
            \/ \E in \in Companions : other' = Entered("second", in, now)
    /\ UNCHANGED <<call, ret>>

\* The scheduler hands the processor to the other thread between two stages.
Switch ==
    /\ other # None
    /\ other.pc \notin Ended
    /\ other' = RunState(IF other.id = "first" THEN "second" ELSE "first")
    /\ Resume(other)
    /\ UNCHANGED <<call, ret, previous>>


(***************************************************************************)
(* Direct calls of the functions of the two modules: the call is made in   *)
(* state "call" and has returned (or raised) in state "return".            *)
(***************************************************************************)
MaxDaySpan == 15

\* Saturday 2024-09-07, the first day of the window the dates are drawn from.
FirstDay == Ordinal(2024, 9, 7)

DayCalls ==
    { [fn |-> "_count_instructional_days", start |-> FirstDay + a, end |-> FirstDay + b] :
        a \in 0..MaxDaySpan, b \in 0..MaxDaySpan }

\* --- column_mapper: header rows handed to resolve_columns ----------------
MaxHeaders == 2

\* Registry variants in several spellings, near misses of registry variants,
\* an empty header, a numeric header and an unknown word.
HeaderPool ==
    { " Offense_ID ", "GENDER", "Incdent Number", "Building Nam",
      "Incident Number Field", "", "123", "zz" }

\* The file_label of each of the successive calls on one header row.
LabelRuns ==
    { <<"consequence">>, <<"incident", "incident", "consequence">> }

MapperCalls ==
    { [fn |-> "resolve_columns", columns |-> cols, labels |-> ls] :
        cols \in SeqsUpTo(HeaderPool, MaxHeaders), ls \in LabelRuns }

\* --- column_mapper: values of _ALL_SOURCES handed to _build_alias_lookup --
MaxVariants == 2

VariantPool == { <<raw, key>> : raw \in {"X y", " x Y ", "z"}, key \in {"campus", "grade"} }

\* The items of a dict literal in order: no raw key twice.
TableChoices(n) ==
    { t \in SeqsUpTo(VariantPool, n) :
        \A i, j \in 1..Len(t) : t[i][1] = t[j][1] => i = j }

SourceChoices ==
    { << <<"First", ta>>, <<"Second", tb>> >> :
        ta \in TableChoices(MaxVariants), tb \in TableChoices(1) }
    \cup {_ALL_SOURCES}

BuildCalls == { [fn |-> "_build_alias_lookup", sources |-> s] : s \in SourceChoices }

Calls == DayCalls \cup MapperCalls \cup BuildCalls

\* What a direct call leaves alone: everything but pc and ret.
CallFrame == <<inputs, locals, result, error, exception, call, previous, other>>

\* _count_instructional_days(start, end)
CallCountInstructionalDays ==
    /\ pc = "call"
    /\ call.fn = "_count_instructional_days"
    /\ ret' = _count_instructional_days(call.start, call.end)
    /\ pc' = "return"
    /\ UNCHANGED CallFrame

\* resolved = resolve_columns(df, file_label), with the next label of the run
CallResolveColumns ==
    /\ pc = "call"
    /\ call.fn = "resolve_columns"
    /\ \E file_label \in {call.labels[Len(ret) + 1]} :
         ret' = Append(ret, [file_label |-> file_label,
                             resolved_map |-> resolve_columns(call.columns, file_label),
                             unmatched |-> None])
    /\ pc' = "resolved"
    /\ UNCHANGED CallFrame

\* unmatched = get_unmatched_columns(df, resolved); then the next call on
\* the same header row, if the run has one.
CallGetUnmatchedColumns ==
    /\ pc = "resolved"
    /\ ret' = [ret EXCEPT ![Len(ret)].unmatched =
                  get_unmatched_columns(call.columns, ret[Len(ret)].resolved_map)]
    /\ pc' = IF Len(ret) < Len(call.labels) THEN "call" ELSE "return"
    /\ UNCHANGED CallFrame

\* _build_alias_lookup() under a value of _ALL_SOURCES: the lookup or the
\* ValueError.
CallBuildAliasLookup ==
    /\ pc = "call"
    /\ call.fn = "_build_alias_lookup"
    /\ ret' = _build_alias_lookup(call.sources)
    /\ pc' = "return"
    /\ UNCHANGED CallFrame

\* A direct call of one function.
CallInit ==
    /\ pc = "call"
    /\ call \in Calls /\ ret = None
    /\ previous = None /\ other = None
    /\ incident_file = None /\ consequence_file = None
    /\ operator_column_overrides = <<>>
    /\ timestamp = "2026-01-01T00:00:00"
    /\ inc_df = None /\ con_df = None
    /\ incident_row_count = 0 /\ consequence_row_count = 0
    /\ flags = <<>> /\ exclusions = <<>> /\ alias_map_log = None
    /\ joined = None /\ matched_incidents = 0 /\ join_success = None
    /\ explicit_minutes_count = 0 /\ date_derived_count = 0
    /\ result = None /\ error = None /\ exception = None

Init == RunInit \/ CallInit

Next ==
    \/ Step1 \/ Step2 \/ Step3 \/ Step4 \/ Step5
    \/ Step6 \/ Step7 \/ Step8 \/ Step9 \/ Step10
    \/ RunAgain \/ Switch
    \/ CallCountInstructionalDays
    \/ CallResolveColumns \/ CallGetUnmatchedColumns \/ CallBuildAliasLookup

Spec == Init /\ [][Next]_vars

(***************************************************************************)
(* The properties checked                                                  *)
(***************************************************************************)
\* sub occurs in s
Contains(s, sub) ==
    \E i \in 1..(Len(s) - Len(sub) + 1) : SubSeq(s, i, i + Len(sub) - 1) = sub

\* The call raised the IngestionError of the join gate.
HaltedAtJoinGate ==
    pc = "halted" /\ error.reason = "Join success below required threshold"

\* The call got past the join gate.
PassedJoinGate ==
    \/ pc \in {"step8", "step9", "step10", "done"}
    \/ pc = "halted" /\ Contains(error.reason, "Cannot compute instructional minutes")
    \/ pc = "crashed" /\ join_success # None

\* The identifier cells of a frame that hold text.
KeyTexts(df) == {Get(df, i, "incident_number") : i \in 1..NRows(df)} \ {NaN}

\* C1: the join gate of stage 7 halts the run exactly when the computed rate
\* matched / total is below 0.95 (a rate of exactly 0.95 proceeds), and the
\* halt it raises carries that computed rate: matched_incidents over the
\* number of incident rows, 0.0 when there are no incident rows.
C1_JoinGate ==
    /\ HaltedAtJoinGate =>
          /\ 100 * matched_incidents < 95 * NRows(inc_df) \/ NRows(inc_df) = 0
          /\ error.join_success_rate = join_success
          /\ IF NRows(inc_df) > 0
             THEN error.join_success_rate = [num |-> matched_incidents, den |-> NRows(inc_df)]
             ELSE error.join_success_rate.num = 0
    /\ PassedJoinGate =>
          /\ NRows(inc_df) > 0
          /\ 100 * matched_incidents >= 95 * NRows(inc_df)

\* A run whose rate is exactly 19/20 = 0.95 got through the gate to its end.
C1_Witness ==
    pc = "done" /\ matched_incidents = 19 /\ NRows(inc_df) = 20
      /\ result.report.join_success_rate = [num |-> 19, den |-> 20]

\* The incident rows whose trimmed identifier is the trimmed identifier of
\* at least one surviving consequence row.
IncidentRowsWithMatch ==
    {i \in 1..NRows(inc_df) :
        /\ ~IsNa(Get(inc_df, i, "incident_number"))
        /\ Get(inc_df, i, "incident_number") \in KeyTexts(con_df)}

\* C2: the join success rate is the fraction of incident rows that have at
\* least one matching surviving consequence row, so a file with several
\* fully matched rows of one incident_number has rate 1.0 and is not halted.
C2_RateIsFractionOfIncidentRows ==
    (HaltedAtJoinGate \/ PassedJoinGate) =>
        /\ RateEq(join_success, Rate(Cardinality(IncidentRowsWithMatch), NRows(inc_df)))
        /\ Cardinality(IncidentRowsWithMatch) = NRows(inc_df) /\ NRows(inc_df) > 0
              => ~HaltedAtJoinGate

\* The pairs (incident row, consequence row) whose trimmed identifiers are
\* equal strings, in the order of the incident frame and then of the
\* consequence frame.
EqualStringPairs ==
    LET n == NRows(con_df)
        pairs == [p \in 1..(NRows(inc_df) * n) |-> <<((p - 1) \div n) + 1, ((p - 1) % n) + 1>>]
    IN  SelectPositions(pairs,
            {p \in 1..Len(pairs) :
                /\ ~IsNa(Get(inc_df, pairs[p][1], "incident_number"))
                /\ ~IsNa(Get(con_df, pairs[p][2], "incident_number"))
                /\ Text(Get(inc_df, pairs[p][1], "incident_number"))
                      = Text(Get(con_df, pairs[p][2], "incident_number"))})

\* C3: the joined dataset of stage 7 has one row for each (incident row,
\* surviving consequence row) pair whose trimmed incident_number strings are
\* equal, and no other row: each joined row starts with the cells of the
\* incident row of its pair, and there are as many rows as pairs.
C3_JoinedRowsAreEqualStringPairs ==
    (HaltedAtJoinGate \/ PassedJoinGate) =>
        /\ NRows(joined) = Len(EqualStringPairs)
        /\ \A r \in 1..NRows(joined) :
              r <= Len(EqualStringPairs) =>
                 SubSeq(joined.rows[r], 1, Len(inc_df.cols))
                    = inc_df.rows[EqualStringPairs[r][1]]

\* The cell of the consequence file as read and normalized, at row label k,
\* in the column that carries the canonical field after the renaming.
RawConCell(k, field) ==
    NormalizeCell(consequence_file.df.rows[k + 1][CHOOSE j \in ColIdx(con_df, field) : TRUE])

\* The row labels of the consequence file as read: 0, 1, ...
RawConLabels == 0..(NRows(consequence_file.df) - 1)

\* The row labels some exclusion record lists.
ExcludedLabels == UNION {Range(exclusions[e].row_indices) : e \in 1..Len(exclusions)}

\* The consequence_type of row k, trimmed and upper-cased, is an approved one.
TypeApproved(k) ==
    /\ ~IsNa(RawConCell(k, "consequence_type"))
    /\ Strip(Upper(Text(RawConCell(k, "consequence_type"))))
          \in {"ISS", "OSS", "DAEP", "JJAEP", "EXPULSION", "LOCAL_ONLY"}

\* Both dates of row k parse.
DatesParse(k) ==
    /\ ~IsNa(_parse_date(RawConCell(k, "consequence_start_date")))
    /\ ~IsNa(_parse_date(RawConCell(k, "consequence_end_date")))

\* Both dates of row k parse and the start is the later one.
StartAfterEnd(k) ==
    /\ DatesParse(k)
    /\ _parse_date(RawConCell(k, "consequence_start_date"))[2]
          > _parse_date(RawConCell(k, "consequence_end_date"))[2]

\* C4: the join success rate is computed after the exclusions of stages 5
\* and 6: the consequence frame that is joined holds exactly the rows that
\* no exclusion lists, every row with an invalid type, an unparseable date
\* or an inverted range is listed, and the matched count and the rate come
\* from the surviving rows alone.
C4_RateAfterExclusions ==
    (HaltedAtJoinGate \/ PassedJoinGate) =>
        /\ Range(con_df.idx) = RawConLabels \ ExcludedLabels
        /\ \A k \in RawConLabels :
              k \in ExcludedLabels <=> (~TypeApproved(k) \/ ~DatesParse(k) \/ StartAfterEnd(k))
        /\ matched_incidents = Cardinality(KeyTexts(inc_df) \cap KeyTexts(con_df))
        /\ join_success = Rate(matched_incidents, NRows(inc_df))
        /\ \A r \in 1..NRows(joined) :
              Get(joined, r, "incident_number")
                 \in {Get(con_df, j, "incident_number") : j \in 1..NRows(con_df)}

\* Every incident identifier has a consequence row in the file as read, yet
\* the run halted at the join gate: the exclusions took the match away.
C4_Witness ==
    /\ HaltedAtJoinGate
    /\ ExcludedLabels # {}
    /\ NRows(inc_df) > 0
    /\ \A i \in 1..NRows(inc_df) :
          /\ ~IsNa(Get(inc_df, i, "incident_number"))
          /\ \E k \in RawConLabels :
                StrStrip(RawConCell(k, "incident_number")) = Get(inc_df, i, "incident_number")

\* C5: every call of run_ingestion ends in one of two outcomes, a Halt
\* (IngestionError) or a Success (IngestionResult); no other exception
\* leaves it, two raw headers resolving to one canonical field included.
C5_HaltOrSuccessOnly == pc # "crashed" /\ exception = None

\* C6: Halt and Success exclude each other.  A halted call returns nothing,
\* whatever it had computed; a result (dataset and report) exists only when
\* the call reached its end without an error.
C6_HaltExcludesOutput ==
    /\ pc = "halted" => error # None /\ result = None
    /\ error # None => pc = "halted" /\ result = None
    /\ result # None => pc = "done" /\ error = None /\ result.data = joined

\* A call that halted after it had built the joined frame and logged
\* exclusions, and returned none of it.
C6_Witness ==
    pc = "halted" /\ joined # None /\ exclusions # <<>> /\ result = None

\* The call raised the IngestionError of the required-column check.
HaltedAtRequiredColumns == pc = "halted" /\ error.reason = "Required columns missing"

\* The call got past stage 4.
PassedRequiredColumns ==
    \/ pc \in {"step5", "step6", "step7", "step8", "step9", "step10", "done", "crashed"}
    \/ HaltedAtJoinGate
    \/ pc = "halted" /\ Contains(error.reason, "Cannot compute instructional minutes")

\* The required fields that no column of the frame carries.
Absent(df, required) == {f \in Range(required) : f \notin Range(df.cols)}

\* C7: stage 4 halts exactly when, after the alias renaming, a required
\* field is absent: the incident file is checked first, the halt names the
\* file and lists exactly the absent required fields, and a call that got
\* past stage 4 has every required field in both frames.
C7_RequiredColumns ==
    /\ HaltedAtRequiredColumns =>
          \/ /\ error.affected_file = "Incident"
             /\ Absent(inc_df, <<"incident_number", "incident_date", "campus">>) # {}
             /\ Range(error.missing_or_invalid_fields)
                   = Absent(inc_df, <<"incident_number", "incident_date", "campus">>)
             /\ Len(error.missing_or_invalid_fields)
                   = Cardinality(Range(error.missing_or_invalid_fields))
          \/ /\ error.affected_file = "Consequence"
             /\ Absent(inc_df, <<"incident_number", "incident_date", "campus">>) = {}
             /\ Absent(con_df, <<"incident_number", "consequence_type",
                                 "consequence_start_date", "consequence_end_date">>) # {}
             /\ Range(error.missing_or_invalid_fields)
                   = Absent(con_df, <<"incident_number", "consequence_type",
                                      "consequence_start_date", "consequence_end_date">>)
             /\ Len(error.missing_or_invalid_fields)
                   = Cardinality(Range(error.missing_or_invalid_fields))
    /\ PassedRequiredColumns =>
          /\ Absent(inc_df, <<"incident_number", "incident_date", "campus">>) = {}
          /\ Absent(con_df, <<"incident_number", "consequence_type",
                              "consequence_start_date", "consequence_end_date">>) = {}

\* The consequence file carried the type alone of its four required fields,
\* the incident file all of its own, and the halt lists the three absent ones.
C7_Witness ==
    /\ HaltedAtRequiredColumns
    /\ error.affected_file = "Consequence"
    /\ Len(error.missing_or_invalid_fields) = 3
    /\ HasCol(con_df, "consequence_type")

\* The call got past stage 5.
PassedStage5 ==
    \/ pc \in {"step6", "step7", "step8", "step9", "step10", "done"}
    \/ HaltedAtJoinGate
    \/ pc = "halted" /\ Contains(error.reason, "Cannot compute instructional minutes")
    \/ pc = "crashed" /\ HasCol(con_df, "_ctype_normalized")

\* The call got past stage 6.
PassedStage6 ==
    \/ pc \in {"step7", "step8", "step9", "step10", "done"}
    \/ HaltedAtJoinGate
    \/ pc = "halted" /\ Contains(error.reason, "Cannot compute instructional minutes")
    \/ pc = "crashed" /\ HasCol(con_df, "_end_parsed")

\* The row labels the exclusion records of one reason list, and their counts.
LabelsExcludedFor(reason) ==
    UNION {Range(exclusions[e].row_indices) :
              e \in {x \in 1..Len(exclusions) : exclusions[x].reason = reason}}

CountExcludedFor(reason) ==
    SumCounts(SelectPositions(exclusions,
                  {x \in 1..Len(exclusions) : exclusions[x].reason = reason}))

\* C8: stage 5 keeps a consequence row exactly when its consequence_type,
\* upper-cased and trimmed, is one of the six approved types; every other
\* row is removed and recorded in one exclusion whose reason contains
\* "consequence_type"; the removal raises no halt of its own.
C8_EnumExclusion ==
    PassedStage5 =>
        LET bad == {k \in RawConLabels : ~TypeApproved(k)} IN
        /\ Range(con_df.idx) \cap bad = {}
        /\ pc = "step6" => Range(con_df.idx) = RawConLabels \ bad
        /\ IF bad = {}
           THEN \A e \in 1..Len(exclusions) : ~Contains(exclusions[e].reason, "consequence_type")
           ELSE /\ Contains(exclusions[1].reason, "consequence_type")
                /\ Range(exclusions[1].row_indices) = bad
                /\ exclusions[1].count = Cardinality(bad)
                /\ \A e \in 2..Len(exclusions) :
                      ~Contains(exclusions[e].reason, "consequence_type")
        /\ pc = "halted" => ~Contains(error.reason, "consequence_type")

\* A run that removed a row for its type, kept a row whose type was approved
\* only after trimming and upper-casing it, and ended in a Success whose
\* report lists the exclusion.
C8_Witness ==
    /\ pc = "done"
    /\ LabelsExcludedFor("Invalid consequence_type (not in approved enum)") # {}
    /\ result.report.excluded_rows = exclusions
    /\ \E k \in Range(con_df.idx) : RawConCell(k, "consequence_type") = <<"oss">>

\* C9: stage 6 removes a consequence row exactly when its start or its end
\* date does not parse (recorded under the missing-date reason) or both
\* parse and the start is after the end (recorded under a reason of its
\* own); a row whose start equals its end is kept; neither removal raises a
\* halt of its own.
C9_DateExclusion ==
    PassedStage6 =>
        LET live == {k \in RawConLabels : TypeApproved(k)}
            unparsed == {k \in live : ~DatesParse(k)}
            inverted == {k \in live : StartAfterEnd(k)}
        IN  /\ Range(con_df.idx) \cap (unparsed \cup inverted) = {}
            /\ pc = "step7" => Range(con_df.idx) = live \ (unparsed \cup inverted)
            /\ LabelsExcludedFor("Missing consequence start or end date") = unparsed
            /\ CountExcludedFor("Missing consequence start or end date") = Cardinality(unparsed)
            /\ LabelsExcludedFor("consequence_start_date > consequence_end_date") = inverted
            /\ CountExcludedFor("consequence_start_date > consequence_end_date")
                  = Cardinality(inverted)
            /\ pc = "halted" =>
                  /\ ~Contains(error.reason, "start or end date")
                  /\ ~Contains(error.reason, "consequence_start_date >")

\* Stage 6 has just kept a row whose start equals its end and removed a row
\* whose start is after its end.
C9_Witness ==
    /\ pc = "step7"
    /\ \E i \in 1..NRows(con_df) :
          /\ ~IsNa(Get(con_df, i, "_start_parsed"))
          /\ Get(con_df, i, "_start_parsed") = Get(con_df, i, "_end_parsed")
    /\ LabelsExcludedFor("consequence_start_date > consequence_end_date") # {}

\* The cell is the text of a number above zero: digits with at most one
\* point, not all of them zero.
PositiveNumber(cell) ==
    /\ ~IsNa(cell)
    /\ IsDecimal(Strip(Text(cell)))
    /\ \E i \in 1..Len(Text(cell)) : Char(Text(cell), i) \in {"1", "2", "3", "4", "5", "6", "7", "8", "9"}

\* The computed cell is the number the text denotes: its whole part, and
\* the text has no fraction other than zero.
IsVerbatim(computed, cell) ==
    LET f == Split(Strip(Text(cell)), ".") IN
    /\ computed = <<"int", DecimalValue(f[1])>>
    /\ Len(f) = 2 => DecimalValue(f[2]) = 0

\* C10: a joined row whose explicit instructional-minutes value is present,
\* numeric and above zero gets that value verbatim as its computed minutes
\* and is tallied as explicit, whole values such as 720 and values with a
\* fraction such as 0.5 or 720.9 alike.
C10_ExplicitMinutesVerbatim ==
    (pc \in {"step9", "step10", "done"}
       /\ HasCol(joined, "instructional_minutes") /\ ~DupCol(joined, "instructional_minutes")) =>
        /\ \A i \in 1..NRows(joined) :
              PositiveNumber(Get(joined, i, "instructional_minutes")) =>
                 IsVerbatim(Get(joined, i, "instructional_minutes_computed"),
                            Get(joined, i, "instructional_minutes"))
        /\ explicit_minutes_count
              >= Cardinality({i \in 1..NRows(joined) :
                                 PositiveNumber(Get(joined, i, "instructional_minutes"))})

\* Monday 2024-09-09, from which the days of the week are counted here.
AMonday == Ordinal(2024, 9, 9)

\* The Monday-to-Friday days d with start <= d <= end.
SchoolDays(start, end) == {d \in start..end : (d - AMonday) % 7 \in 0..4}

\* The rows of the joined frame whose minutes came from the dates: those
\* with no explicit value that is a whole number above zero.
DateDerivedRow(i) ==
    \/ ~HasCol(joined, "instructional_minutes")
    \/ ExplicitValue(joined, i).kind # "int"
    \/ ExplicitValue(joined, i).v <= 0

\* C11: _count_instructional_days(start, end) is the number of Monday-to-
\* Friday days d with start <= d <= end, both ends included: 0 when start
\* is after end, weekends in the range not counted; and in a finished run a
\* date-derived row's instructional_minutes_computed is that count times 480.
C11_InstructionalDays ==
    /\ (pc = "return" /\ call.fn = "_count_instructional_days") =>
          /\ ret = Cardinality(SchoolDays(call.start, call.end))
          /\ call.start > call.end => ret = 0
    /\ (pc \in {"step9", "step10", "done"} /\ ~DupCol(joined, "instructional_minutes")) =>
          \A i \in 1..NRows(joined) :
             DateDerivedRow(i) =>
                Get(joined, i, "instructional_minutes_computed")
                   = <<"int", 480 * Cardinality(SchoolDays(Get(joined, i, "_start_parsed")[2],
                                                         Get(joined, i, "_end_parsed")[2]))>>

\* The call for Monday 2024-09-09 to Sunday 2024-09-15 has returned 5.
C11_Witness ==
    /\ pc = "return"
    /\ call = [fn |-> "_count_instructional_days", start |-> AMonday, end |-> AMonday + 6]
    /\ ret = 5

\* The row labels the records of a list of exclusions name, and whether two
\* entries of the list (or of one record) name the same label.
LabelsOf(exs) == UNION {Range(exs[e].row_indices) : e \in 1..Len(exs)}

NamedTwice(exs) ==
    \/ \E e \in 1..Len(exs) :
          Cardinality(Range(exs[e].row_indices)) # Len(exs[e].row_indices)
    \/ \E e, f \in 1..Len(exs) :
          e # f /\ Range(exs[e].row_indices) \cap Range(exs[f].row_indices) # {}

\* C12: in a successful run every consequence row that stages 5 and 6
\* removed is accounted for in report.excluded_rows: the counts add up to
\* the number of rows removed, each record's count is the length of its
\* row_indices, the indices are the removed rows' positions in the file as
\* read, no index is in two records, and a row failing several checks is
\* recorded under the earliest failing stage.
C12_ExclusionsAccounted ==
    pc = "done" =>
        LET exs == result.report.excluded_rows IN
        /\ SumCounts(exs) = NRows(consequence_file.df) - NRows(con_df)
        /\ \A e \in 1..Len(exs) : exs[e].count = Len(exs[e].row_indices) /\ exs[e].count > 0
        /\ LabelsOf(exs) = RawConLabels \ Range(con_df.idx)
        /\ ~NamedTwice(exs)
        /\ \A k \in LabelsOf(exs) :
              CASE ~TypeApproved(k) ->
                      k \in LabelsExcludedFor("Invalid consequence_type (not in approved enum)")
                [] ~DatesParse(k) ->
                      k \in LabelsExcludedFor("Missing consequence start or end date")
                [] OTHER ->
                      k \in LabelsExcludedFor("consequence_start_date > consequence_end_date")

\* A successful run whose file held, at position 1, a row with no approved
\* type and an inverted date range: it is recorded once, for its type.
C12_Witness ==
    /\ pc = "done"
    /\ Len(result.report.excluded_rows) = 1
    /\ result.report.excluded_rows[1].row_indices = <<1>>
    /\ ~TypeApproved(1) /\ StartAfterEnd(1)

\* The flags normalization owes for one file as read: one for every column
\* in which the cleaning changed a cell.
NormalizationFlagsOwed(file) ==
    { "Mechanical normalize applied to column '" \o file.df.cols[j] \o "'" :
        j \in {c \in 1..Len(file.df.cols) :
                 \E i \in 1..NRows(file.df) :
                    NormalizeCell(file.df.rows[i][c]) # file.df.rows[i][c]} }

\* Some flag starts with the text.
FlagStarting(fs, text) ==
    \E f \in 1..Len(fs) : Len(fs[f]) >= Len(text) /\ SubSeq(fs[f], 1, Len(text)) = text

\* C13: no flag of a successful run is dropped.  The flags normalization,
\* enum validation, date validation and the exclusion summary generate are
\* all elements of report.flags, and every element of report.flags occurs
\* literally in report.as_text().
C13_NoFlagDropped ==
    pc = "done" =>
        LET fs == result.report.flags
            live == {k \in RawConLabels : TypeApproved(k)}
            badtype == Cardinality(RawConLabels \ live)
            unparsed == Cardinality({k \in live : ~DatesParse(k)})
            inverted == Cardinality({k \in live : StartAfterEnd(k)})
        IN  /\ fs = flags
            /\ NormalizationFlagsOwed(incident_file) \subseteq Range(fs)
            /\ NormalizationFlagsOwed(consequence_file) \subseteq Range(fs)
            /\ badtype > 0 =>
                  FlagStarting(fs, ToString(badtype)
                     \o " consequence rows excluded: consequence_type not in approved enum")
            /\ unparsed > 0 =>
                  (ToString(unparsed) \o " consequence rows excluded: missing start or end date")
                     \in Range(fs)
            /\ inverted > 0 =>
                  (ToString(inverted) \o " consequence rows excluded: start date is after end date")
                     \in Range(fs)
            /\ badtype + unparsed + inverted > 0 =>
                  ("Total rows excluded before join: " \o ToString(badtype + unparsed + inverted)
                     \o ". Join success rate reflects post-exclusion match.") \in Range(fs)
            /\ \A f \in 1..Len(fs) : Contains(as_text(result.report), fs[f])

\* A successful run that owed two normalization flags, the enum flag and
\* the summary flag, and whose report text has a FLAGS section.
C13_Witness ==
    /\ pc = "done"
    /\ NormalizationFlagsOwed(incident_file) # {}
    /\ NormalizationFlagsOwed(consequence_file) # {}
    /\ LabelsExcludedFor("Invalid consequence_type (not in approved enum)") # {}
    /\ Len(result.report.flags) = 4


\* The rounds of a run of column_mapper calls on one header row: a call of
\* resolve_columns followed by the call of get_unmatched_columns on its
\* result.  A round is finished once the second call has returned.
MapperRun == pc \in {"call", "resolved", "return"} /\ call.fn = "resolve_columns"

Rounds == IF MapperRun THEN 1..Len(ret) ELSE {}

FinishedRounds == IF MapperRun /\ pc = "resolved" THEN 1..(Len(ret) - 1) ELSE Rounds

\* The keys of a dict kept as the sequence of its items, in dict order.
KeyList(d) == [i \in 1..Len(d) |-> d[i][1]]

\* The elements of a sequence that are in S, in the order of the sequence;
\* with once = TRUE every element at its first place only.
Filtered(seq, S, once) ==
    SelectPositions(seq, {i \in 1..Len(seq) :
        /\ seq[i] \in S
        /\ once => \A j \in 1..(i - 1) : seq[j] # seq[i]})

\* C14: the keys of resolve_columns(df, label) and the list
\* get_unmatched_columns(df, resolved) partition the headers of df: every
\* header is in exactly one of the two, as its original string, and both
\* list their headers in column order.
C14_ResolvedAndUnmatchedPartition ==
    \A r \in FinishedRounds :
        LET keys == KeyList(ret[r].resolved_map)
            unmatched == ret[r].unmatched
        IN  /\ Range(keys) \cup Range(unmatched) = Range(call.columns)
            /\ Range(keys) \cap Range(unmatched) = {}
            /\ keys = Filtered(call.columns, Range(keys), TRUE)
            /\ unmatched = Filtered(call.columns, Range(unmatched), FALSE)

\* The header row " Offense_ID ", "zz" has been split into the resolved
\* " Offense_ID " and the unmatched "zz".
C14_Witness ==
    /\ pc = "return" /\ call.fn = "resolve_columns"
    /\ call.columns = <<" Offense_ID ", "zz">>
    /\ KeyList(ret[1].resolved_map) = <<" Offense_ID ">>
    /\ ret[1].unmatched = <<"zz">>

\* What the tables of the registry say, read off the tables themselves: the
\* pairs <<trimmed lowercased raw header, canonical field>>.
TablePairs(sources) ==
    UNION { { <<Lower(Strip(sources[s][2][i][1])), sources[s][2][i][2]>> :
                i \in 1..Len(sources[s][2]) } : s \in 1..Len(sources) }

RegistryPairs == TablePairs(_ALL_SOURCES)

RegistryKeys == {p[1] : p \in RegistryPairs}

\* strip(lowercase(h))
Normal(h) == Strip(Lower(h))

\* h is the key k with one character left out (a truncation when it is the
\* last one), or k followed by one more word.
OneCharLeftOut(h, k) ==
    /\ Len(h) + 1 = Len(k)
    /\ \E i \in 1..Len(k) : h = SubSeq(k, 1, i - 1) \o SubSeq(k, i + 1, Len(k))

WordAdded(h, k) ==
    /\ Len(h) > Len(k) + 1
    /\ SubSeq(h, 1, Len(k) + 1) = k \o " "

\* A header next to a registry key that is no registry key itself.
NearMiss(h) ==
    /\ Normal(h) \notin RegistryKeys
    /\ \E k \in RegistryKeys : OneCharLeftOut(Normal(h), k) \/ WordAdded(Normal(h), k)

\* The near misses among the headers the calls are made with.
NearMissHeaders == {h \in HeaderPool : NearMiss(h)}

\* C15: resolve_columns resolves a header h to the canonical field c if and
\* only if strip(lowercase(h)) is a key of the registry mapped to c; an empty
\* header, a numeric header and a header that is a registry key with one
\* character changed, a truncation or an added word are never resolved.
C15_ExactMatchOnly ==
    \A r \in Rounds :
        LET resolved == Range(ret[r].resolved_map)
        IN  /\ \A p \in resolved :
                 p[1] \in Range(call.columns) /\ <<Normal(p[1]), p[2]>> \in RegistryPairs
            /\ \A h \in Range(call.columns) :
                 /\ \A n \in {Normal(h)} : \A c \in NORMALIZED_FIELDS :
                      <<n, c>> \in RegistryPairs => <<h, c>> \in resolved
                 /\ (h = "" \/ AllDigits(h) \/ h \in NearMissHeaders) =>
                      \A p \in resolved : p[1] # h

\* "GENDER" has been resolved to gender next to the near miss
\* "Incdent Number", which has not been resolved.
C15_Witness ==
    /\ pc = "resolved"
    /\ call.columns = <<"GENDER", "Incdent Number">>
    /\ {"Incdent Number", "Building Nam", "Incident Number Field"} \subseteq NearMissHeaders
    /\ ret[Len(ret)].resolved_map = << <<"GENDER", "gender">> >>

BuildReturned == pc = "return" /\ call.fn = "_build_alias_lookup"

\* Some trimmed, lowercased raw header is given two canonical fields.
TablesConflict(sources) ==
    \E p, q \in TablePairs(sources) : p[1] = q[1] /\ p[2] # q[2]

\* C17: _build_alias_lookup raises if and only if some normalized raw header
\* is assigned two different canonical fields among the source tables; the
\* same header with the same field in several tables is accepted, and the
\* lookup then maps every normalized raw header of every table to the field
\* the table gave it, and holds nothing else.
C17_BuildFailsOnConflictOnly ==
    BuildReturned =>
        /\ ret.kind = "ValueError" <=> TablesConflict(call.sources)
        /\ ret.kind = "ok" =>
             /\ \A p \in TablePairs(call.sources) :
                  p[1] \in DOMAIN ret.lookup /\ ret.lookup[p[1]] = p[2]
             /\ DOMAIN ret.lookup = {p[1] : p \in TablePairs(call.sources)}

\* The build has raised for two tables that give "X y" and " x Y " two
\* different fields.
C17_Witness ==
    /\ BuildReturned
    /\ call.sources = << <<"First", << <<"X y", "campus">>, <<"z", "grade">> >> >>,
                         <<"Second", << <<" x Y ", "grade">> >> >> >>
    /\ ret.kind = "ValueError"
    /\ ret.normalized_variant = "x y" /\ ret.existing = "campus"

\* The build has accepted two tables that give "X y" and " x Y " the same
\* field.
OverlapAccepted ==
    /\ BuildReturned
    /\ call.sources = << <<"First", << <<"X y", "campus">> >> >>,
                         <<"Second", << <<" x Y ", "campus">> >> >> >>
    /\ ret = [kind |-> "ok", lookup |-> [v \in {"x y"} |-> "campus"]]

\* C18: the built registry is well formed: every key is its own trimmed,
\* lowercased form and every value is one of the 16 NORMALIZED_FIELDS, so
\* that no result of resolve_columns holds a field outside that set.
C18_RegistryWellFormed ==
    /\ Cardinality(NORMALIZED_FIELDS) = 16
    /\ (BuildReturned /\ ret.kind = "ok") =>
          \A k \in DOMAIN ret.lookup :
             k = Lower(Strip(k)) /\ ret.lookup[k] \in NORMALIZED_FIELDS
    /\ \A r \in Rounds :
          \A p \in Range(ret[r].resolved_map) : p[2] \in NORMALIZED_FIELDS

\* The build over the six tables of column_mapper.py has returned its
\* lookup of 244 keys.
C18_Witness ==
    /\ BuildReturned
    /\ call.sources = _ALL_SOURCES
    /\ ret.kind = "ok"
    /\ ret.lookup = _ALIAS_LOOKUP
    /\ Cardinality(DOMAIN ret.lookup) = 244

\* The items of an alias map of the pipeline, as pairs <<header, field>>.
AliasItems(amap) == {<<h, amap[h]>> : h \in DOMAIN amap}

\* Stage 3 has run without operator overrides.
AutoDetected == alias_map_log # None /\ DOMAIN operator_column_overrides = {}

\* C19: without operator overrides, stage 3 of run_ingestion renames a header
\* h of a file to the canonical field c if and only if resolve_columns
\* resolves h to c over the registry of column_mapper.py.
C19_PipelineResolvesWithRegistry ==
    AutoDetected =>
        /\ AliasItems(alias_map_log.incident)
              = Range(resolve_columns(incident_file.df.cols, "Incident"))
        /\ AliasItems(alias_map_log.consequence)
              = Range(resolve_columns(consequence_file.df.cols, "Consequence"))

\* The run on the incident header row "Offense_ID", "Incident Date",
\* "Campus", which the registry resolves in full, has left "Offense_ID" as
\* it was and has halted for the missing incident_number.
OffenseIdNotRenamed ==
    /\ pc = "halted" /\ AutoDetected
    /\ incident_file.df.cols = <<"Offense_ID", "Incident Date", "Campus">>
    /\ resolve_columns(incident_file.df.cols, "Incident")
          = << <<"Offense_ID", "incident_number">>, <<"Incident Date", "incident_date">>,
               <<"Campus", "campus">> >>
    /\ inc_df.cols = <<"Offense_ID", "incident_date", "campus">>
    /\ error.reason = "Required columns missing"
    /\ error.missing_or_invalid_fields = <<"incident_number">>

\* What does hold: a header the pipeline renames is resolved by
\* resolve_columns, to the same field.
PipelineRenamesRegistryHeadersOnly ==
    AutoDetected =>
        /\ AliasItems(alias_map_log.incident)
              \subseteq Range(resolve_columns(incident_file.df.cols, "Incident"))
        /\ AliasItems(alias_map_log.consequence)
              \subseteq Range(resolve_columns(consequence_file.df.cols, "Consequence"))


\* df.columns after df.rename(columns=amap)
Renamed(cols, amap) ==
    [j \in 1..Len(cols) |-> IF cols[j] \in DOMAIN amap THEN amap[cols[j]] ELSE cols[j]]

\* The map auto-detection proposes for a header row: the headers whose
\* trimmed, lowercased form HEADER_VARIANT_MAP knows.
AutoAlias(cols) ==
    [h \in {c \in Range(cols) : Lower(Strip(c)) \in DOMAIN HEADER_VARIANT_MAP}
        |-> HEADER_VARIANT_MAP[Lower(Strip(h))]]

Supplied(role) == role \in DOMAIN operator_column_overrides

\* The alias map and the columns a role must have right after stage 3.
RoleFollowsOverride(role, raw_cols, cols) ==
    LET expected == IF Supplied(role) THEN operator_column_overrides[role]
                    ELSE AutoAlias(raw_cols)
    IN  /\ alias_map_log[role] = expected
        /\ cols = Renamed(raw_cols, expected)

IncidentOverrideApplied ==
    /\ pc = "done"
    /\ Supplied("incident") /\ ~Supplied("consequence")
    /\ incident_file.df.cols = <<"ID", "When", "Where">>
    /\ result.report.alias_map.incident = operator_column_overrides.incident

\* new is old with some of its characters left out, every one of them an
\* invisible character or a blank.
RECURSIVE OnlyRemoved(_, _)
OnlyRemoved(old, new) ==
    IF Len(old) = 0 THEN Len(new) = 0
    ELSE \/ /\ Len(new) > 0 /\ Char(old, 1) = Char(new, 1)
            /\ OnlyRemoved(Tail(old), Tail(new))
         \/ /\ Char(old, 1) \in Invisible \cup Whitespace
            /\ OnlyRemoved(Tail(old), new)

\* The text has no invisible character and no blank at either end.
CleanText(s) ==
    /\ \A i \in 1..Len(s) : Char(s, i) \notin Invisible
    /\ Len(s) > 0 => Char(s, 1) \notin Whitespace /\ Char(s, Len(s)) \notin Whitespace

\* What stage 2 may make of a cell: a missing cell stays missing, a clean
\* text stays as it is, any other text loses invisible characters and
\* surrounding blanks and nothing else.
CellCleaned(old, new) ==
    IF IsNa(old) THEN IsNa(new)
    ELSE /\ ~IsNa(new)
         /\ CleanText(Text(new))
         /\ OnlyRemoved(Text(old), Text(new))
         /\ CleanText(Text(old)) => new = old
         /\ \A i \in 2..(Len(Text(new)) - 1) :
               Char(Text(new), i) \in Whitespace =>
                  \E j \in 2..(Len(Text(old)) - 1) : Char(Text(old), j) = Char(Text(new), i)

\* The columns of a file in which stage 2 altered a cell, left to right.
AlteredColumns(raw, df) ==
    SelectPositions(raw.cols,
        {j \in 1..Len(raw.cols) : \E i \in 1..NRows(raw) : df.rows[i][j] # raw.rows[i][j]})

FrameCleaned(raw, df) ==
    /\ df.cols = raw.cols /\ df.idx = raw.idx /\ NRows(df) = NRows(raw)
    /\ \A i \in 1..NRows(raw) : \A j \in 1..Len(raw.cols) :
          CellCleaned(raw.rows[i][j], df.rows[i][j])

NormalizeFlag(col) == "Mechanical normalize applied to column '" \o col \o "'"

\* C21: stage 2 leaves the row count, the row order and the columns of each
\* dataset as they were, changes a cell's text only by removing a
\* byte-order mark, the invisible characters and surrounding whitespace,
\* and records one flag naming the column for every column in which a cell
\* was altered and for no other column.
C21_NormalizationFrame ==
    pc = "step3" =>
        /\ FrameCleaned(incident_file.df, inc_df)
        /\ FrameCleaned(consequence_file.df, con_df)
        /\ flags = [k \in 1..Len(AlteredColumns(incident_file.df, inc_df)) |->
                       NormalizeFlag(AlteredColumns(incident_file.df, inc_df)[k])]
                   \o [k \in 1..Len(AlteredColumns(consequence_file.df, con_df)) |->
                       NormalizeFlag(AlteredColumns(consequence_file.df, con_df)[k])]

\* Stage 2 has made "A" of the identifier " ^A|@ " and "North" of the campus
\* "North ", and has flagged these two incident columns and no other.
C21_Witness ==
    /\ pc = "step3"
    /\ NRows(inc_df) = 1 /\ NRows(con_df) = 1
    /\ incident_file.df.rows[1][1] = <<" ^A|@ ">>
    /\ inc_df.rows[1] = << <<"A">>, <<"2024-09-10">>, <<"North">> >>
    /\ consequence_file.df.rows[1][1] = <<"A">>
    /\ flags = << NormalizeFlag("Incident Number"), NormalizeFlag("Campus") >>

\* The data a caller reads off a Success: the counts, the rate, the
\* exclusion records, the minutes tallies and the minutes of every row.
DataOf(res) ==
    [incident_row_count |-> res.report.incident_row_count,
     consequence_row_count |-> res.report.consequence_row_count,
     matched_incidents |-> res.report.matched_incidents,
     join_success_rate |-> res.report.join_success_rate,
     excluded_rows |-> res.report.excluded_rows,
     minutes_explicit_count |-> res.report.minutes_explicit_count,
     minutes_date_derived_count |-> res.report.minutes_date_derived_count,
     rows |-> [i \in 1..NRows(res.data) |->
                 <<Get(res.data, i, "incident_number"),
                   Get(res.data, i, "instructional_minutes_computed")>>]]

\* Two calls ended the same way with the same data.
SameData(a, b) ==
    /\ a.pc = b.pc
    /\ a.pc = "halted" =>
          /\ a.error.reason = b.error.reason
          /\ a.error.join_success_rate = b.error.join_success_rate
    /\ a.pc = "done" => DataOf(a.result) = DataOf(b.result)
    /\ a.pc = "crashed" => a.exception = b.exception

\* A second call on the files of the first, alone in the process, has ended.
CalledTwice == previous # None /\ other = None /\ pc \in Ended

HaltedTwice ==
    /\ CalledTwice
    /\ pc = "halted" /\ previous.pc = "halted"
    /\ error.join_success_rate # None

\* Two runs are under way in two threads, or have ended.
TwoThreads == previous # None /\ other # None

\* How the run of the first thread stands, whichever thread has the processor.
FirstRun ==
    IF other.id = "second" THEN Outcome
    ELSE [pc |-> other.pc, result |-> other.result, error |-> other.error,
          exception |-> other.exception]

\* An outcome with the one field the clock decides blanked.
Untimed(o) ==
    IF o.pc = "done" THEN [o EXCEPT !.result.report.timestamp = ""] ELSE o

HaltStage ==
    IF inc_df = None THEN 1
    ELSE IF joined = None THEN 4
    ELSE IF GateHalts(join_success) THEN 7
    ELSE 8

\* The file the halt of each stage names.
NamesAffectedFile(e) ==
    CASE HaltStage = 1 ->
           \/ e.affected_file = incident_file.path
              /\ (~incident_file.exists \/ ~incident_file.parseable)
           \/ e.affected_file = consequence_file.path
              /\ (~consequence_file.exists \/ ~consequence_file.parseable)
      [] HaltStage = 4 ->
           /\ e.affected_file \in {"Incident", "Consequence"}
           /\ Len(e.missing_or_invalid_fields) > 0
      [] HaltStage = 7 -> e.affected_file = "Both (Incident + Consequence)"
      [] HaltStage = 8 -> e.affected_file = "Consequence"

\* C24: every IngestionError run_ingestion raises has a non-empty reason,
\* names the affected file and has a non-empty list of non-empty fix steps;
\* its join_success_rate is the computed rate when the run halted at stage 7
\* or 8 and is None when it halted at stage 1 or 4.
C24_HaltCarriesItsFields ==
    pc = "halted" =>
        /\ error # None
        /\ Len(error.reason) > 0
        /\ NamesAffectedFile(error)
        /\ Len(error.operator_fix_steps) > 0
        /\ \A k \in 1..Len(error.operator_fix_steps) : Len(error.operator_fix_steps[k]) > 0
        /\ (error.join_success_rate # None) <=> (HaltStage \in {7, 8})
        /\ HaltStage \in {7, 8} => error.join_success_rate = join_success
        /\ HaltStage \in {1, 4} => join_success = None

\* Reached: a run halted by stage 8, with the rate that had passed the gate.
C24_Witness ==
    /\ pc = "halted"
    /\ HaltStage = 8
    /\ error.join_success_rate = join_success
    /\ error.affected_file = "Consequence"

(***************************************************************************)
(* C25: the stages run in order, and only four of them halt                *)
(***************************************************************************)
StagePcs ==
    <<"step1", "step2", "step3", "step4", "step5",
      "step6", "step7", "step8", "step9", "step10">>

\* The number of the stage a run is about to execute.
StageNo(p) == CHOOSE k \in 1..Len(StagePcs) : StagePcs[k] = p

InStage == \E k \in 1..Len(StagePcs) : StagePcs[k] = pc

\* The step is one of the running call itself: no new call is entered and
\* no other thread takes over.
OwnStep == previous' = previous /\ other' = other /\ call = None

\* C25: a call of run_ingestion goes from each stage to the next one only
\* (stage 1, 2, ... 9, then the report), never back and never twice through
\* the same stage; it ends by returning after the report is built, or by an
\* IngestionError raised at stage 1, 4, 7 or 8 and at no other stage; once
\* ended it takes no further step.
C25_StagesInOrder ==
    [][ OwnStep =>
          /\ InStage =>
               /\ \/ StageNo(pc) < Len(StagePcs) /\ pc' = StagePcs[StageNo(pc) + 1]
                  \/ StageNo(pc) = Len(StagePcs) /\ pc' = "done"
                  \/ pc' \in {"halted", "crashed"}
               /\ pc' = "halted" => StageNo(pc) \in {1, 4, 7, 8}
               /\ pc' = "halted" => error' # None /\ result' = None
          /\ pc \in Ended => pc' = pc
      ]_vars

\* Reached: a run that went through every stage and returned, and had rows
\* excluded on its way.
C25_Witness ==
    /\ pc = "done"
    /\ previous = None /\ other = None
    /\ Len(exclusions) > 0
    /\ Len(flags) > 1
    /\ result.report.excluded_rows = exclusions

(***************************************************************************)
(* C26: no row of a returned dataset with zero minutes                     *)
(***************************************************************************)
\* instructional_minutes_computed of row i of the returned dataset
ComputedMinutes(i) == Get(result.data, i, "instructional_minutes_computed")[2]

\* C26: every row of the dataset a successful run returns has
\* instructional_minutes_computed above zero, the rows whose removal spans
\* only a Saturday and/or a Sunday included.
C26_NoZeroMinutes ==
    pc = "done" => \A i \in 1..NRows(result.data) : ComputedMinutes(i) > 0

(***************************************************************************)
(* C27: every joined row tallied under one minutes method                  *)
(***************************************************************************)
\* The rows of the returned dataset whose explicit value is absent, no
\* number, or no number above zero.
WithoutPositiveExplicit ==
    {i \in 1..NRows(result.data) :
        \/ ~HasCol(result.data, "instructional_minutes")
        \/ ~PositiveNumber(Get(result.data, i, "instructional_minutes"))}

\* The two tallies of the report add up to the rows of the dataset.
TalliesCoverRows ==
    pc = "done" =>
        result.report.minutes_explicit_count + result.report.minutes_date_derived_count
           = NRows(result.data)

\* C27: in a successful run the explicit and the date-derived tally of the
\* report add up to the number of joined rows, and the rows tallied
\* date-derived are exactly those whose explicit value is absent, not a
\* number or not above zero.
C27_OneMethodPerRow ==
    pc = "done" =>
        /\ result.report.minutes_explicit_count + result.report.minutes_date_derived_count
              = NRows(result.data)
        /\ result.report.minutes_date_derived_count = Cardinality(WithoutPositiveExplicit)
        /\ result.report.minutes_explicit_count
              = NRows(result.data) - Cardinality(WithoutPositiveExplicit)

(***************************************************************************)
(* C28: the rows that survive stage 6 can be date-derived                  *)
(***************************************************************************)
ParsedNames == {"_start_parsed", "_end_parsed"}

\* The file has a column named as stage 6 names its parsed dates.
FileHasParsedName(file) ==
    file.df # None /\ \E j \in 1..Len(file.df.cols) : file.df.cols[j] \in ParsedNames

\* The operator's map for the incident file renames a column to such a name.
OverrideGivesParsedName ==
    /\ DOMAIN operator_column_overrides # {}
    /\ "incident" \in DOMAIN operator_column_overrides
    /\ \E h \in DOMAIN operator_column_overrides.incident :
          operator_column_overrides.incident[h] \in ParsedNames

\* Row i of the consequence frame has both dates parsed, start <= end.
DatesInOrder(df, i) ==
    /\ ~IsNa(Get(df, i, "_start_parsed"))
    /\ ~IsNa(Get(df, i, "_end_parsed"))
    /\ Get(df, i, "_start_parsed")[2] <= Get(df, i, "_end_parsed")[2]

\* The rows that survive stage 6 have their dates, and the joined rows can
\* be date-derived unless the join has set the parsed columns apart.
SurvivorsHaveDates ==
    /\ pc = "step7" => \A i \in 1..NRows(con_df) : DatesInOrder(con_df, i)
    /\ (pc = "step8" /\ \A n \in ParsedNames : HasCol(joined, n) /\ ~DupCol(joined, n)) =>
          \A i \in 1..NRows(joined) : DateDerived(joined, i).kind = "date_derived"

HaltByOverride ==
    /\ pc = "halted" /\ HaltStage = 8
    /\ ~FileHasParsedName(incident_file) /\ ~FileHasParsedName(consequence_file)
    /\ OverrideGivesParsedName

(***************************************************************************)
(* C29: rows without an identifier stay out of the join                    *)
(***************************************************************************)
\* The identifier cell is missing or blank.
BlankKey(cell) == IsNa(cell) \/ Len(Strip(Text(cell))) = 0

\* The joined rows that pair an incident row without an identifier.
BlankJoinedRows == {r \in 1..NRows(joined) : BlankKey(Get(joined, r, "incident_number"))}

\* C29: an incident row whose incident_number is blank or missing gives no
\* row of the joined dataset and adds nothing to the matched-incident count,
\* also when the consequence file has rows with a blank or missing
\* incident_number.
C29_BlankIdentifierNeverJoins ==
    (HaltedAtJoinGate \/ PassedJoinGate) =>
        /\ BlankJoinedRows = {}
        /\ matched_incidents
              = Cardinality({Get(joined, r, "incident_number") :
                                r \in (1..NRows(joined)) \ BlankJoinedRows})

\* Reached: a run that returned a dataset with a row joined on the empty
\* identifier and counted it as a matched incident.
BlankIdentifierReturned ==
    /\ pc = "done"
    /\ BlankJoinedRows # {}
    /\ result.report.matched_incidents = 1
    /\ NRows(result.data) = 1

(***************************************************************************)
(* C30: the figures of a returned report                                   *)
(***************************************************************************)
One == [num |-> 1, den |-> 1]

\* The Status line of the text of the report.
StatusIs(rep, word) == Contains(as_text(rep), "  Status        : " \o word \o "\n")

\* C30: a report run_ingestion returns has a join_success_rate from 0.95 to
\* 1.0, matched_incidents not above incident_row_count, and the row counts
\* of the two files as read, before any exclusion; the Status line of its
\* as_text() is PASS.
C30_ReturnedReportPasses ==
    pc = "done" =>
        /\ ~RateLess(result.report.join_success_rate, JOIN_SUCCESS_THRESHOLD)
        /\ ~RateLess(One, result.report.join_success_rate)
        /\ result.report.matched_incidents <= result.report.incident_row_count
        /\ result.report.incident_row_count = NRows(incident_file.df)
        /\ result.report.consequence_row_count = NRows(consequence_file.df)
        /\ StatusIs(result.report, "PASS")
        /\ ~StatusIs(result.report, "FAIL")

\* Reached: a report whose rate is exactly the threshold, with fewer
\* matched incidents than incident rows.
C30_Witness ==
    /\ pc = "done"
    /\ RateEq(result.report.join_success_rate, JOIN_SUCCESS_THRESHOLD)
    /\ result.report.matched_incidents < result.report.incident_row_count
    /\ StatusIs(result.report, "PASS")

\* Also reached: a report that counts consequence rows stage 5 or 6 removed.
ReportCountsExcludedRows ==
    /\ pc = "done"
    /\ result.report.consequence_row_count > NRows(con_df)
    /\ result.report.consequence_row_count = NRows(consequence_file.df)
=============================================================================
